---- MODULE Spec2Model ----
(***************************************************************************)
(* Model of the label layout engine of idyll-sankey                        *)
(* (src/src/lib/label-layout.ts): SpatialGrid, TextMeasurementCache and    *)
(* LabelLayoutManager.computeNodeLabelLayouts with its two placement       *)
(* searches; of the SankeyCanvas component that uses the engine            *)
(* (src/src/components/SankeyCanvas.tsx); and of computeLayout             *)
(* (src/src/lib/layout.ts).  Each has its own specification: Spec and      *)
(* SpecEngine for the engine, SpecGrid and SpecCache for the grid and the  *)
(* cache on their own, SpecCanvas and SpecLayout.                          *)
(*                                                                         *)
(* Numbers.  The source computes with IEEE doubles.  The model computes in *)
(* fixed point, one unit being 1/1000 pixel (Px), so that the halves of    *)
(* (x0+x1)/2 and the diagonal offsets cos(45 deg)*d of the spiral search   *)
(* are integers; cos(45 deg)*d is rounded down to the unit, and the values *)
(* cos(90 deg) = 6e-17 etc. of Math.cos are taken as 0.  The two values of *)
(* a node coordinate that are no finite number are kept apart from the     *)
(* integers: Undef (the optional field is absent) and NaN, with the        *)
(* arithmetic and the comparisons JavaScript gives them.                   *)
(***************************************************************************)
EXTENDS Integers, Sequences, FiniteSets, TLC

VARIABLES
  options,        \* LabelLayoutManager.options
  textCache,      \* TextMeasurementCache.cache : key -> width
  spatialGrid,    \* SpatialGrid.grid : cell -> sequence of labels
  nodes,          \* argument nodes of the running / last call
  existingLabels, \* argument existingLabels of the running / last call
  sortedNodes,    \* local sortedNodes
  idx,            \* position of the for-of loop in sortedNodes (1-based)
  placed,         \* local placed, the result once pc = "done"
  unplaced,       \* local unplaced, the result once pc = "done"
  queries,        \* number of SpatialGrid.checkCollision calls of this call
  pc,             \* "idle" | "loop" | "done" | "threw"
  probe,          \* a SpatialGrid used on its own: rectangles inserted, last query
  measured,       \* a TextMeasurementCache used on its own: the last measureText
  layout,         \* computeLayout: the arguments and the links of the last call
  canvas,         \* the SankeyCanvas component instance
  truncation,     \* truncateText: the arguments and the locals of a call
  hashing         \* hashColor: the argument and the locals of a call

vars == <<options, textCache, spatialGrid, nodes, existingLabels, sortedNodes,
          idx, placed, unplaced, queries, pc, probe, measured, layout, canvas,
          truncation, hashing>>

\* the state outside the layout engine
outside == <<probe, measured, layout, canvas, truncation, hashing>>

----------------------------------------------------------------------------
(* Bounds of the model *)

MaxNodes == 3

\* rectangles inserted into a grid used on its own
MaxInserts == 2

\* rows given to computeLayout
MaxRows == 2

\* characters of the text given to truncateText
MaxText == 5

\* characters of the string given to hashColor
MaxChars == 6

----------------------------------------------------------------------------
(* Numbers *)

NaN == -999999999

Undef == -999999998

Px(n) == n * 1000

IsFinite(a) == a # NaN /\ a # Undef

\* a + b, a - b, a / 2 of JavaScript: undefined converts to NaN, NaN spreads
Add(a, b) == IF IsFinite(a) /\ IsFinite(b) THEN a + b ELSE NaN

Sub(a, b) == IF IsFinite(a) /\ IsFinite(b) THEN a - b ELSE NaN

Half(a) == IF IsFinite(a) THEN a \div 2 ELSE NaN

\* a < b, a > b of JavaScript: false as soon as one side is NaN
Lt(a, b) == IsFinite(a) /\ IsFinite(b) /\ a < b

Gt(a, b) == IsFinite(a) /\ IsFinite(b) /\ a > b

\* a || 0 : undefined, NaN and 0 are falsy
OrZero(a) == IF IsFinite(a) THEN a ELSE 0

\* Math.floor(a / cellSize)
FloorDiv(a, c) == IF IsFinite(a) THEN a \div c ELSE NaN

----------------------------------------------------------------------------
(* SpatialGrid *)

CellSize == 50

EmptyGrid == [c \in {} |-> <<>>]

\* GetCellsForBounds as it would be if a rectangle were bucketed by its
\* top-left corner alone
GetCellsTopLeftOnly(x, y, width, height) ==
  IF IsFinite(x) /\ IsFinite(y) /\ IsFinite(width) /\ IsFinite(height)
  THEN { << FloorDiv(x, Px(CellSize)), FloorDiv(y, Px(CellSize)) >> }
  ELSE {}

\* the cells a rectangle is bucketed into; a for loop whose bound is NaN
\* runs no iteration
GetCellsForBounds(x, y, width, height) ==
  LET minCellX == FloorDiv(x, Px(CellSize))
      maxCellX == FloorDiv(Add(x, width), Px(CellSize))
      minCellY == FloorDiv(y, Px(CellSize))
      maxCellY == FloorDiv(Add(y, height), Px(CellSize))
  IN  IF IsFinite(minCellX) /\ IsFinite(maxCellX)
         /\ IsFinite(minCellY) /\ IsFinite(maxCellY)
      THEN (minCellX .. maxCellX) \X (minCellY .. maxCellY)
      ELSE {}

\* GridInsert as it would be if a label were stored in the cell of its
\* top-left corner alone
GridInsertCornerCell(grid, label) ==
  LET cells == GetCellsTopLeftOnly(label.x, label.y, label.width, label.height)
  IN  [c \in DOMAIN grid \cup cells |->
         IF c \in cells
         THEN Append(IF c \in DOMAIN grid THEN grid[c] ELSE <<>>, label)
         ELSE grid[c]]

GridInsert(grid, label) ==
  LET cells == GetCellsForBounds(label.x, label.y, label.width, label.height)
  IN  [c \in DOMAIN grid \cup cells |->
         IF c \in cells
         THEN Append(IF c \in DOMAIN grid THEN grid[c] ELSE <<>>, label)
         ELSE grid[c]]

\* the AABB test of checkCollision, strict on every side
Overlaps(x, y, width, height, label) ==
  /\ Lt(x, Add(label.x, label.width))
  /\ Gt(Add(x, width), label.x)
  /\ Lt(y, Add(label.y, label.height))
  /\ Gt(Add(y, height), label.y)

CheckCollision(grid, x, y, width, height) ==
  \E c \in GetCellsForBounds(x, y, width, height) \cap DOMAIN grid :
    \E k \in 1 .. Len(grid[c]) : Overlaps(x, y, width, height, grid[c][k])

RECURSIVE InsertAll(_, _, _)
InsertAll(grid, labels, k) ==
  IF k > Len(labels) THEN grid
  ELSE InsertAll(GridInsert(grid, labels[k]), labels, k + 1)

----------------------------------------------------------------------------
(* TextMeasurementCache *)

CharWidth == 8

\* ctx.measureText(text).width of the drawing context
BackendWidth(text) == Px(Len(text) * CharWidth)

\* the texts for which ctx.measureText throws
ThrowingTexts == {"Bad"}

\* ctx.measureText(text) throws instead of returning
BackendThrows(text) == text \in ThrowingTexts

CacheKey(text, font) == font \o ":" \o text

EmptyCache == [k \in {} |-> 0]

\* the width measureText returns
MeasureText(cache, text, font) ==
  IF CacheKey(text, font) \in DOMAIN cache
  THEN cache[CacheKey(text, font)]
  ELSE BackendWidth(text)

\* the cache after measureText
CacheAfter(cache, text, font) ==
  IF CacheKey(text, font) \in DOMAIN cache
  THEN cache
  ELSE [k \in DOMAIN cache \cup {CacheKey(text, font)} |->
          IF k \in DOMAIN cache THEN cache[k] ELSE BackendWidth(text)]

\* measureText(text, font) does not return: the key is not cached and the
\* drawing context throws
MeasureThrows(cache, text, font) ==
  CacheKey(text, font) \notin DOMAIN cache /\ BackendThrows(text)

----------------------------------------------------------------------------
(* LabelLayoutManager: the two placement searches *)

Font(o) == ToString(o.fontSize) \o "px " \o o.fontFamily

\* textWidth + padding * 2 and fontSize + padding * 2
LabelWidth(cache, node, o) ==
  Add(MeasureText(cache, node.id, Font(o)), Px(o.padding * 2))

LabelHeight(o) == Px(o.fontSize + o.padding * 2)

\* AnchorX as it would be if the anchor were the node's left edge
AnchorXLeftEdge(node) == node.x0

AnchorX(node) == Half(Add(node.x0, node.x1))

AnchorY(node) == Half(Add(node.y0, node.y1))

NodeHeight(node) == Sub(node.y1, node.y0)

\* HasGeometry as it would be if y1 were not tested
HasGeometryWithoutY1(node) ==
  ~ (node.x0 = Undef \/ node.x1 = Undef \/ node.y0 = Undef)

HasGeometry(node) ==
  ~ (node.x0 = Undef \/ node.x1 = Undef \/ node.y0 = Undef \/ node.y1 = Undef)

\* the bounds check of both searches: true when the candidate is rejected
OutOfBounds(x, y, width, height, o) ==
  \/ Lt(x, 0)
  \/ Gt(Add(x, width), Px(o.canvasWidth))
  \/ Lt(y, 0)
  \/ Gt(Add(y, height), Px(o.canvasHeight))

NodeGap == 6

RightPosition(node, labelHeight) ==
  [x |-> Add(node.x1, Px(NodeGap)), y |-> Sub(AnchorY(node), Half(labelHeight))]

LeftPosition(node, labelWidth, labelHeight) ==
  [x |-> Sub(Sub(node.x0, labelWidth), Px(NodeGap)),
   y |-> Sub(AnchorY(node), Half(labelHeight))]

IsLeftSide(node, o) == Lt(node.x0, Half(Px(o.canvasWidth)))

\* StandardPositions as it would be if the right-hand side were tried first
\* for every node
StandardPositionsRightFirst(node, labelWidth, labelHeight, o) ==
  << RightPosition(node, labelHeight),
     LeftPosition(node, labelWidth, labelHeight) >>

\* the array positions of tryPlaceNodeLabel
StandardPositions(node, labelWidth, labelHeight, o) ==
  IF IsLeftSide(node, o)
  THEN << RightPosition(node, labelHeight),
          LeftPosition(node, labelWidth, labelHeight) >>
  ELSE << LeftPosition(node, labelWidth, labelHeight),
          RightPosition(node, labelHeight) >>

SpiralStep == 15

Diag(d) == (d * 707107) \div 1000

\* Math.cos(rad) * distance and Math.sin(rad) * distance
CosTimes(angle, d) ==
  CASE angle = 0 -> Px(d)
    [] angle \in {45, 315} -> Diag(d)
    [] angle \in {90, 270} -> 0
    [] angle \in {135, 225} -> 0 - Diag(d)
    [] angle = 180 -> 0 - Px(d)

SinTimes(angle, d) ==
  CASE angle \in {0, 180} -> 0
    [] angle \in {45, 135} -> Diag(d)
    [] angle = 90 -> Px(d)
    [] angle \in {225, 315} -> 0 - Diag(d)
    [] angle = 270 -> 0 - Px(d)

Angles == <<0, 45, 90, 135, 180, 225, 270, 315>>

\* Rings as it would be if the loop did not stop at maxDistance
RingsPastThreshold(o) == 2

\* Rings as it would be if a last ring reached beyond maxDistance
RingsRoundedUp(o) == (o.leaderLineThreshold + SpiralStep - 1) \div SpiralStep

\* the rings of the outer loop: distance = step; distance <= maxDistance
Rings(o) == IF o.leaderLineThreshold < SpiralStep THEN 0
            ELSE o.leaderLineThreshold \div SpiralStep

\* the candidates of tryDetachedPlacement in scan order
SpiralPositions(node, labelWidth, labelHeight, o) ==
  [k \in 1 .. 8 * Rings(o) |->
     LET d == SpiralStep * (((k - 1) \div 8) + 1)
         angle == Angles[((k - 1) % 8) + 1]
     IN  [x |-> Sub(Add(AnchorX(node), CosTimes(angle, d)), Half(labelWidth)),
          y |-> Sub(Add(AnchorY(node), SinTimes(angle, d)), Half(labelHeight))]]

\* a candidate both loops accept: in bounds and free in the index
Accepted(grid, pos, width, height, o) ==
  /\ ~ OutOfBounds(pos.x, pos.y, width, height, o)
  /\ ~ CheckCollision(grid, pos.x, pos.y, width, height)

\* least element of a set of indices, 0 when it is empty
MinOrZero(S) == IF S = {} THEN 0 ELSE CHOOSE k \in S : \A j \in S : k <= j

\* index of the first accepted candidate, 0 when the loop runs out
FirstAccepted(grid, positions, width, height, o) ==
  MinOrZero({k \in 1 .. Len(positions) :
               Accepted(grid, positions[k], width, height, o)})

\* checkCollision calls of a search that ends at candidate `last` (0: ran out)
QueriesOf(positions, last, width, height, o) ==
  Cardinality({k \in 1 .. (IF last = 0 THEN Len(positions) ELSE last) :
                 ~ OutOfBounds(positions[k].x, positions[k].y, width, height, o)})

MakeLabel(node, x, y, width, height, leader) ==
  [text |-> node.id, x |-> x, y |-> y, width |-> width, height |-> height,
   anchorX |-> AnchorX(node), anchorY |-> AnchorY(node),
   hasLeaderLine |-> leader, nodeOrLinkId |-> node.id,
   priority |-> NodeHeight(node)]

\* what a search returns when it ends at candidate k: <<>> for null
LabelAt(node, positions, k, width, height, leader) ==
  IF k = 0 THEN <<>>
  ELSE << MakeLabel(node, positions[k].x, positions[k].y, width, height, leader) >>

\* the loop over the candidates, shared by both searches
Search(grid, node, positions, width, height, o, leader) ==
  LabelAt(node, positions, FirstAccepted(grid, positions, width, height, o),
          width, height, leader)

SearchQueries(grid, positions, width, height, o) ==
  QueriesOf(positions, FirstAccepted(grid, positions, width, height, o),
            width, height, o)

\* tryPlaceNodeLabel: <<>> for null, else <<label>>
TryPlaceNodeLabel(grid, cache, node, o) ==
  IF ~ HasGeometry(node) THEN <<>>
  ELSE Search(grid, node,
              StandardPositions(node, LabelWidth(cache, node, o), LabelHeight(o), o),
              LabelWidth(cache, node, o), LabelHeight(o), o, FALSE)

\* tryDetachedPlacement: <<>> for null, else <<label>>
TryDetachedPlacement(grid, cache, node, o) ==
  IF ~ HasGeometry(node) THEN <<>>
  ELSE Search(grid, node,
              SpiralPositions(node, LabelWidth(cache, node, o), LabelHeight(o), o),
              LabelWidth(cache, node, o), LabelHeight(o), o, TRUE)

StandardQueries(grid, cache, node, o) ==
  SearchQueries(grid,
                StandardPositions(node, LabelWidth(cache, node, o), LabelHeight(o), o),
                LabelWidth(cache, node, o), LabelHeight(o), o)

DetachedQueries(grid, cache, node, o) ==
  SearchQueries(grid,
                SpiralPositions(node, LabelWidth(cache, node, o), LabelHeight(o), o),
                LabelWidth(cache, node, o), LabelHeight(o), o)

\* the record pushed to unplaced
UnplacedLabel(cache, node, o) ==
  MakeLabel(node, 0, 0, LabelWidth(cache, node, o), LabelHeight(o), FALSE)

----------------------------------------------------------------------------
(* LabelLayoutManager.computeNodeLabelLayouts *)

\* SortHeight as it would be if the comparator were aHeight - bHeight
SortHeightAscending(node) == OrZero(node.y0) - OrZero(node.y1)

\* the comparator's heights: (a.y1 || 0) - (a.y0 || 0)
SortHeight(node) == OrZero(node.y1) - OrZero(node.y0)

\* Array.prototype.sort with (a, b) => bHeight - aHeight: descending, stable
RECURSIVE InsertSorted(_, _)
InsertSorted(sorted, node) ==
  IF sorted = <<>> THEN << node >>
  ELSE IF SortHeight(node) > SortHeight(sorted[Len(sorted)])
       THEN Append(InsertSorted(SubSeq(sorted, 1, Len(sorted) - 1), node),
                   sorted[Len(sorted)])
       ELSE Append(sorted, node)

RECURSIVE SortNodes(_)
SortNodes(ns) ==
  IF ns = <<>> THEN <<>>
  ELSE InsertSorted(SortNodes(SubSeq(ns, 1, Len(ns) - 1)), ns[Len(ns)])

\* Branch as it would be if enableDetachedLabels were not consulted
BranchIgnoringFlag(grid, cache, node, o) ==
  IF ~ HasGeometry(node) THEN "skip"
  ELSE IF MeasureThrows(cache, node.id, Font(o)) THEN "throw"
  ELSE IF Lt(NodeHeight(node), Px(o.minLabelHeight)) THEN "small"
  ELSE IF TryPlaceNodeLabel(grid, cache, node, o) # <<>> THEN "standard"
  ELSE IF TryDetachedPlacement(grid, cache, node, o) # <<>> THEN "detached"
  ELSE "unplaced"

\* Branch as it would be if the measurement of a throwing text returned a
\* width all the same
BranchSwallowingThrow(grid, cache, node, o) ==
  IF ~ HasGeometry(node) THEN "skip"
  ELSE IF Lt(NodeHeight(node), Px(o.minLabelHeight)) THEN "small"
  ELSE IF TryPlaceNodeLabel(grid, cache, node, o) # <<>> THEN "standard"
  ELSE IF ~ o.enableDetachedLabels THEN "dropped"
  ELSE IF TryDetachedPlacement(grid, cache, node, o) # <<>> THEN "detached"
  ELSE "unplaced"

\* Branch as it would be if tryDetachedPlacement were never called
BranchWithoutDetachedSearch(grid, cache, node, o) ==
  IF ~ HasGeometry(node) THEN "skip"
  ELSE IF MeasureThrows(cache, node.id, Font(o)) THEN "throw"
  ELSE IF Lt(NodeHeight(node), Px(o.minLabelHeight)) THEN "small"
  ELSE IF TryPlaceNodeLabel(grid, cache, node, o) # <<>> THEN "standard"
  ELSE IF ~ o.enableDetachedLabels THEN "dropped"
  ELSE "unplaced"

\* the branch the loop body takes for a node; both the small-node branch and
\* tryPlaceNodeLabel begin with textCache.measureText(node.id, font), which
\* lets an exception of the drawing context pass
Branch(grid, cache, node, o) ==
  IF ~ HasGeometry(node) THEN "skip"
  ELSE IF MeasureThrows(cache, node.id, Font(o)) THEN "throw"
  ELSE IF Lt(NodeHeight(node), Px(o.minLabelHeight)) THEN "small"
  ELSE IF TryPlaceNodeLabel(grid, cache, node, o) # <<>> THEN "standard"
  ELSE IF ~ o.enableDetachedLabels THEN "dropped"
  ELSE IF TryDetachedPlacement(grid, cache, node, o) # <<>> THEN "detached"
  ELSE "unplaced"

\* PushPlaced as it would be if a placed label were not inserted in the grid
PushPlacedUnindexed(st, label, cache, q) ==
  [st EXCEPT !.placed = Append(@, label), !.cache = cache, !.queries = q]

\* placed.push(label); this.spatialGrid.insert(label)
PushPlaced(st, label, cache, q) ==
  [st EXCEPT !.placed = Append(@, label), !.grid = GridInsert(@, label),
             !.cache = cache, !.queries = q]

\* PushUnplaced as it would be if the unplaced record were inserted too
PushUnplacedIndexed(st, label, cache, q) ==
  [st EXCEPT !.unplaced = Append(@, label), !.grid = GridInsert(@, label),
             !.cache = cache, !.queries = q]

\* unplaced.push({...})
PushUnplaced(st, label, cache, q) ==
  [st EXCEPT !.unplaced = Append(@, label), !.cache = cache, !.queries = q]

\* the loop body when it takes branch b
BodyAt(st, node, o, b) ==
  CASE b = "skip" -> st
    [] b = "throw" -> st
    [] b = "small" ->
         PushUnplaced(st, UnplacedLabel(st.cache, node, o),
                      CacheAfter(st.cache, node.id, Font(o)), st.queries)
    [] b = "standard" ->
         PushPlaced(st, TryPlaceNodeLabel(st.grid, st.cache, node, o)[1],
                    CacheAfter(st.cache, node.id, Font(o)),
                    st.queries + StandardQueries(st.grid, st.cache, node, o))
    [] b = "dropped" ->
         [st EXCEPT !.cache = CacheAfter(st.cache, node.id, Font(o)),
                    !.queries = @ + StandardQueries(st.grid, st.cache, node, o)]
    [] b = "detached" ->
         PushPlaced(st, TryDetachedPlacement(st.grid, st.cache, node, o)[1],
                    CacheAfter(st.cache, node.id, Font(o)),
                    st.queries + StandardQueries(st.grid, st.cache, node, o)
                               + DetachedQueries(st.grid, st.cache, node, o))
    [] b = "unplaced" ->
         PushUnplaced(st, UnplacedLabel(st.cache, node, o),
                      CacheAfter(st.cache, node.id, Font(o)),
                      st.queries + StandardQueries(st.grid, st.cache, node, o)
                                 + DetachedQueries(st.grid, st.cache, node, o))

\* one iteration of the for loop over sortedNodes, on the locals and the
\* two members it changes
LoopBody(st, node, o) == BodyAt(st, node, o, Branch(st.grid, st.cache, node, o))

\* CallStart as it would be if existingLabels were not inserted
CallStartUnseeded(cache, existing) ==
  [placed |-> <<>>, unplaced |-> <<>>, grid |-> EmptyGrid,
   cache |-> cache, queries |-> 0]

\* the state of the call before the loop: index reset and seeded
CallStart(cache, existing) ==
  [placed |-> <<>>, unplaced |-> <<>>,
   grid |-> InsertAll(EmptyGrid, existing, 1),
   cache |-> cache, queries |-> 0]

RECURSIVE RunLoop(_, _, _, _)
RunLoop(st, sorted, k, o) ==
  IF k > Len(sorted) THEN st
  ELSE IF Branch(st.grid, st.cache, sorted[k], o) = "throw" THEN st
  ELSE RunLoop(LoopBody(st, sorted[k], o), sorted, k + 1, o)

\* the whole call as a function of its arguments, the options and the cache
ComputeNodeLabelLayouts(ns, existing, cache, o) ==
  RunLoop(CallStart(cache, existing), SortNodes(ns), 1, o)

----------------------------------------------------------------------------
(* Inputs of the model *)

Node(id, x0, x1, y0, y1) == [id |-> id, x0 |-> x0, x1 |-> x1, y0 |-> y0, y1 |-> y1]

\* the nodes a call may be given, in pixels
NodePool ==
  { Node("Tall",  Px(10), Px(25), Px(10), Px(50)),
    Node("Mid",   Px(10), Px(25), Px(20), Px(50)),
    Node("S",     Px(60), Px(75), Px(10), Px(15)),
    Node("East",  Px(100), Px(115), Px(10), Px(40)),
    Node("U",     Px(10), Px(25), Px(10), Undef),
    Node("Rev",   Px(60), Px(75), Px(50), Px(10)),
    Node("RevX",  Px(75), Px(60), Px(30), Px(50)),
    Node("N",     Px(10), Px(25), NaN, NaN) }

RECURSIVE NodeLists(_)
NodeLists(n) ==
  IF n = 0 THEN { <<>> }
  ELSE NodeLists(n - 1) \cup
       { Append(l, nd) : l \in {s \in NodeLists(n - 1) : Len(s) = n - 1},
                         nd \in NodePool }

DistinctIds(ns) ==
  \A a, b \in 1 .. Len(ns) : ns[a].id = ns[b].id => a = b

Rect(id, x, y, width, height) ==
  [text |-> id, x |-> x, y |-> y, width |-> width, height |-> height,
   anchorX |-> x, anchorY |-> y, hasLeaderLine |-> FALSE,
   nodeOrLinkId |-> id, priority |-> 0]

ExistingPool ==
  { <<>>, << Rect("link", Px(40), Px(0), Px(30), Px(25)) >> }

OptionsPool ==
  [ minLabelHeight : {8}, fontSize : {12}, fontFamily : {"sans-serif"},
    padding : {4}, leaderLineThreshold : {10, 30},
    canvasWidth : {120}, canvasHeight : {60},
    enableHoverLabels : {TRUE}, enableDetachedLabels : BOOLEAN ]

----------------------------------------------------------------------------
(* The components outside the engine, before they are used *)

\* a SpatialGrid of its own with nothing inserted and nothing asked
ProbeIdle == [inserted |-> <<>>, rect |-> <<>>, hit |-> FALSE]

\* no measureText call made yet
MeasuredIdle == <<>>

\* computeLayout not called
LayoutIdle == [pc |-> "idle"]

\* no SankeyCanvas constructed
CanvasIdle == [pc |-> "none"]

\* truncateText and hashColor not called
HelpersIdle ==
  /\ truncation = [pc |-> "idle"]
  /\ hashing = [pc |-> "idle"]

OutsideIdle ==
  /\ probe = ProbeIdle
  /\ measured = MeasuredIdle
  /\ layout = LayoutIdle
  /\ canvas = CanvasIdle
  /\ HelpersIdle

----------------------------------------------------------------------------
(* The state machine *)

\* new LabelLayoutManager(ctx, options)
Init ==
  /\ options \in OptionsPool
  /\ textCache = EmptyCache
  /\ spatialGrid = EmptyGrid
  /\ nodes = <<>>
  /\ existingLabels = <<>>
  /\ sortedNodes = <<>>
  /\ idx = 1
  /\ placed = <<>>
  /\ unplaced = <<>>
  /\ queries = 0
  /\ pc = "idle"
  /\ OutsideIdle

\* computeNodeLabelLayouts(ns, existing) up to the loop
Call ==
  /\ pc = "idle"
  /\ \E ns \in {l \in NodeLists(MaxNodes) : DistinctIds(l)},
        existing \in ExistingPool :
       /\ nodes' = ns
       /\ existingLabels' = existing
       /\ spatialGrid' = CallStart(textCache, existing).grid
       /\ sortedNodes' = SortNodes(ns)
  /\ placed' = <<>>
  /\ unplaced' = <<>>
  /\ queries' = 0
  /\ idx' = 1
  /\ pc' = "loop"
  /\ UNCHANGED <<options, textCache>>
  /\ UNCHANGED outside

\* the loop is at a node for which the body takes branch b
AtBranch(b) ==
  /\ pc = "loop"
  /\ idx <= Len(sortedNodes)
  /\ Branch(spatialGrid, textCache, sortedNodes[idx], options) = b

\* the locals and members an iteration leaves behind
Assign(st) ==
  /\ placed' = st.placed
  /\ unplaced' = st.unplaced
  /\ spatialGrid' = st.grid
  /\ textCache' = st.cache
  /\ queries' = st.queries

\* one iteration of the loop
Iterate ==
  /\ Assign(LoopBody([placed |-> placed, unplaced |-> unplaced,
                      grid |-> spatialGrid, cache |-> textCache,
                      queries |-> queries], sortedNodes[idx], options))
  /\ idx' = idx + 1
  /\ UNCHANGED <<options, nodes, existingLabels, sortedNodes, pc>>
  /\ UNCHANGED outside

\* a node without geometry: continue
SkipNode ==
  /\ AtBranch("skip")
  /\ Iterate

\* nodeHeight < minLabelHeight: pushed to unplaced
TooSmall ==
  /\ AtBranch("small")
  /\ Iterate

\* tryPlaceNodeLabel returned a label
PlaceStandard ==
  /\ AtBranch("standard")
  /\ Iterate

\* tryDetachedPlacement returned a label
PlaceDetached ==
  /\ AtBranch("detached")
  /\ Iterate

\* both searches returned null: pushed to unplaced
MarkUnplaced ==
  /\ AtBranch("unplaced")
  /\ Iterate

\* tryPlaceNodeLabel returned null and enableDetachedLabels is false
DropNode ==
  /\ AtBranch("dropped")
  /\ Iterate

\* return { placed, unplaced }
Return ==
  /\ pc = "loop"
  /\ idx > Len(sortedNodes)
  /\ pc' = "done"
  /\ UNCHANGED <<options, textCache, spatialGrid, nodes, existingLabels,
                 sortedNodes, idx, placed, unplaced, queries>>
  /\ UNCHANGED outside

Next ==
  \/ Call
  \/ SkipNode
  \/ TooSmall
  \/ PlaceStandard
  \/ PlaceDetached
  \/ MarkUnplaced
  \/ DropNode
  \/ Return

Spec == Init /\ [][Next]_vars

----------------------------------------------------------------------------
(* The engine over its life: calls one after another on one instance *)

\* the nodes given to an engine that is called again and again
EnginePool ==
  { Node("Tall",  Px(10), Px(25), Px(10), Px(50)),
    Node("Mid",   Px(10), Px(25), Px(20), Px(50)),
    Node("S",     Px(60), Px(75), Px(10), Px(15)),
    Node("U",     Px(10), Px(25), Px(10), Undef),
    Node("Bad",   Px(100), Px(115), Px(10), Px(40)) }

\* the lists of at most n nodes of a pool, ids distinct
RECURSIVE ListsOf(_, _)
ListsOf(pool, n) ==
  IF n = 0 THEN { <<>> }
  ELSE ListsOf(pool, n - 1) \cup
       { Append(l, nd) : l \in {s \in ListsOf(pool, n - 1) : Len(s) = n - 1},
                         nd \in pool }

\* configurations, those with a canvas of no width among them
EngineOptionsPool ==
  [ minLabelHeight : {8}, fontSize : {12}, fontFamily : {"sans-serif"},
    padding : {4}, leaderLineThreshold : {30},
    canvasWidth : {120, 0}, canvasHeight : {60},
    enableHoverLabels : {TRUE}, enableDetachedLabels : BOOLEAN ]

\* new LabelLayoutManager(ctx, options): the constructor stores the options
\* and builds an empty grid and cache, whatever the options are
InitEngine ==
  /\ options \in EngineOptionsPool
  /\ textCache = EmptyCache
  /\ spatialGrid = EmptyGrid
  /\ nodes = <<>>
  /\ existingLabels = <<>>
  /\ sortedNodes = <<>>
  /\ idx = 1
  /\ placed = <<>>
  /\ unplaced = <<>>
  /\ queries = 0
  /\ pc = "idle"
  /\ OutsideIdle

\* SeedGrid as it would be if the call did not clear the grid first
SeedGridWithoutClear(grid, existing) == InsertAll(grid, existing, 1)

\* this.spatialGrid.clear(), then existingLabels inserted
SeedGrid(grid, existing) == InsertAll(EmptyGrid, existing, 1)

\* computeNodeLabelLayouts(ns, existing) up to the loop, on an engine that
\* is new, has returned from a call or has let an exception pass
Invoke ==
  /\ pc \in {"idle", "done", "threw"}
  /\ \E ns \in {l \in ListsOf(EnginePool, MaxNodes) : DistinctIds(l)},
        existing \in ExistingPool :
       /\ nodes' = ns
       /\ existingLabels' = existing
       /\ spatialGrid' = SeedGrid(spatialGrid, existing)
       /\ sortedNodes' = SortNodes(ns)
  /\ placed' = <<>>
  /\ unplaced' = <<>>
  /\ queries' = 0
  /\ idx' = 1
  /\ pc' = "loop"
  /\ UNCHANGED <<options, textCache>>
  /\ UNCHANGED outside

\* measureText throws in the loop body: the exception leaves
\* computeNodeLabelLayouts, nothing is returned
Throw ==
  /\ AtBranch("throw")
  /\ pc' = "threw"
  /\ UNCHANGED <<options, textCache, spatialGrid, nodes, existingLabels,
                 sortedNodes, idx, placed, unplaced, queries>>
  /\ UNCHANGED outside

\* LabelLayoutManager.clear()
ClearEngine ==
  /\ pc \in {"idle", "done", "threw"}
  /\ spatialGrid' = EmptyGrid
  /\ textCache' = EmptyCache
  /\ UNCHANGED <<options, nodes, existingLabels, sortedNodes, idx, placed,
                 unplaced, queries, pc>>
  /\ UNCHANGED outside

NextEngine ==
  \/ Invoke
  \/ SkipNode
  \/ TooSmall
  \/ PlaceStandard
  \/ PlaceDetached
  \/ MarkUnplaced
  \/ DropNode
  \/ Throw
  \/ Return
  \/ ClearEngine

SpecEngine == InitEngine /\ [][NextEngine]_vars

----------------------------------------------------------------------------
(* Properties of computeNodeLabelLayouts *)

Done == pc = "done"

\* a <= b of JavaScript
Le(a, b) == IsFinite(a) /\ IsFinite(b) /\ a <= b

\* all four coordinates of the node are defined
Defined(node) == Undef \notin {node.x0, node.x1, node.y0, node.y1}

DefinedNodes == {i \in 1 .. Len(nodes) : Defined(nodes[i])}

\* the labels of a list that belong to node id
LabelsOf(list, id) == {k \in 1 .. Len(list) : list[k].nodeOrLinkId = id}

\* the strict AABB test on two rectangles
StrictOverlap(a, b) ==
  /\ Lt(a.x, Add(b.x, b.width))
  /\ Gt(Add(a.x, a.width), b.x)
  /\ Lt(a.y, Add(b.y, b.height))
  /\ Gt(Add(a.y, a.height), b.y)

\* the node of the input list with this id
NodeOf(id) == nodes[CHOOSE i \in 1 .. Len(nodes) : nodes[i].id = id]

\* all four coordinates are finite numbers and the height reaches minLabelHeight
TallEnough(node) ==
  /\ IsFinite(node.x0) /\ IsFinite(node.x1)
  /\ IsFinite(node.y0) /\ IsFinite(node.y1)
  /\ node.y1 - node.y0 >= Px(options.minLabelHeight)

\* C1: when the call has returned, every input node whose four coordinates
\* are defined has exactly one label in placed and unplaced together, so
\* placed.length + unplaced.length is the number of such nodes, whatever
\* enableDetachedLabels is.
C1_Completeness ==
  Done =>
    /\ Len(placed) + Len(unplaced) = Cardinality(DefinedNodes)
    /\ \A i \in DefinedNodes :
         Cardinality(LabelsOf(placed, nodes[i].id))
           + Cardinality(LabelsOf(unplaced, nodes[i].id)) = 1

\* C2: at every point of a call no two distinct labels of placed overlap
\* under the strict AABB test.
C2_NoOverlap ==
  \A a, b \in 1 .. Len(placed) :
    a # b => ~ StrictOverlap(placed[a], placed[b])

\* a call has returned two placed labels, one at a standard position and one
\* detached, that touch along an edge
C2_Witness ==
  /\ Done
  /\ \E a, b \in 1 .. Len(placed) :
       /\ ~ placed[a].hasLeaderLine
       /\ placed[b].hasLeaderLine
       /\ IsFinite(placed[a].y) /\ IsFinite(placed[b].y)
       /\ placed[b].y = placed[a].y + placed[a].height
       /\ placed[b].x < placed[a].x + placed[a].width
       /\ placed[b].x + placed[b].width > placed[a].x

\* C3: every label of placed lies fully inside the canvas: 0 <= x, 0 <= y,
\* x + width <= canvasWidth and y + height <= canvasHeight.
C3_InBounds ==
  \A k \in 1 .. Len(placed) :
    /\ Le(0, placed[k].x)
    /\ Le(0, placed[k].y)
    /\ Le(Add(placed[k].x, placed[k].width), Px(options.canvasWidth))
    /\ Le(Add(placed[k].y, placed[k].height), Px(options.canvasHeight))

\* C4: no label of placed strictly overlaps a rectangle of existingLabels.
C4_ClearOfExisting ==
  \A k \in 1 .. Len(placed) : \A e \in 1 .. Len(existingLabels) :
    ~ StrictOverlap(placed[k], existingLabels[e])

\* a call has returned a detached label for a node whose right-hand standard
\* position was in bounds and overlapped an existing label
C4_Witness ==
  /\ Done
  /\ existingLabels # <<>>
  /\ \E k \in 1 .. Len(placed) :
       /\ placed[k].hasLeaderLine
       /\ TallEnough(NodeOf(placed[k].nodeOrLinkId))
       /\ LET node == NodeOf(placed[k].nodeOrLinkId)
              right == [x |-> node.x1 + Px(6),
                        y |-> (node.y0 + node.y1) \div 2 - placed[k].height \div 2,
                        width |-> placed[k].width, height |-> placed[k].height]
          IN  /\ right.x + right.width <= Px(options.canvasWidth)
              /\ right.y >= 0
              /\ right.y + right.height <= Px(options.canvasHeight)
              /\ StrictOverlap(right, existingLabels[1])

\* C5: with enableDetachedLabels = false no label of placed has
\* hasLeaderLine = true.
C5_DetachedDisabled ==
  ~ options.enableDetachedLabels =>
    \A k \in 1 .. Len(placed) : ~ placed[k].hasLeaderLine

\* a call with enableDetachedLabels = false has returned, with one node
\* placed and another, tall enough, for which standard placement failed
C5_Witness ==
  /\ Done
  /\ ~ options.enableDetachedLabels
  /\ Len(placed) > 0
  /\ \E i \in 1 .. Len(nodes) :
       /\ TallEnough(nodes[i])
       /\ LabelsOf(placed, nodes[i].id) = {}

\* the preferred standard position of a node: right of it when it starts in
\* the left half of the canvas, left of it otherwise
PreferredRect(node) ==
  LET width == BackendWidth(node.id) + Px(options.padding * 2)
      height == Px(options.fontSize + options.padding * 2)
  IN  [x |-> IF node.x0 < Px(options.canvasWidth) \div 2
             THEN node.x1 + Px(6) ELSE node.x0 - width - Px(6),
       y |-> (node.y0 + node.y1) \div 2 - height \div 2,
       width |-> width, height |-> height]

RectInCanvas(r) ==
  /\ r.x >= 0 /\ r.x + r.width <= Px(options.canvasWidth)
  /\ r.y >= 0 /\ r.y + r.height <= Px(options.canvasHeight)

\* nodes i and j are both tall enough, i is strictly taller, and their
\* preferred standard positions overlap
Contested(i, j) ==
  /\ i # j
  /\ TallEnough(nodes[i]) /\ TallEnough(nodes[j])
  /\ nodes[i].y1 - nodes[i].y0 > nodes[j].y1 - nodes[j].y0
  /\ StrictOverlap(PreferredRect(nodes[i]), PreferredRect(nodes[j]))

\* the preferred position of node i is in bounds and free of existingLabels,
\* and no third node of the list is as tall as node i
PreferredOpen(i, j) ==
  /\ RectInCanvas(PreferredRect(nodes[i]))
  /\ \A e \in 1 .. Len(existingLabels) :
       ~ StrictOverlap(PreferredRect(nodes[i]), existingLabels[e])
  /\ \A k \in 1 .. Len(nodes) :
       (k \notin {i, j} /\ TallEnough(nodes[k]))
         => nodes[k].y1 - nodes[k].y0 < nodes[i].y1 - nodes[i].y0

AtPreferred(i) ==
  \E p \in LabelsOf(placed, nodes[i].id) :
    /\ placed[p].x = PreferredRect(nodes[i]).x
    /\ placed[p].y = PreferredRect(nodes[i]).y
    /\ ~ placed[p].hasLeaderLine

AtSmallNode ==
  /\ pc = "loop"
  /\ idx <= Len(sortedNodes)
  /\ Defined(sortedNodes[idx])
  /\ Lt(Sub(sortedNodes[idx].y1, sortedNodes[idx].y0), Px(options.minLabelHeight))

\* C7: the iteration for a node with defined geometry and height below
\* minLabelHeight appends one record to unplaced (hasLeaderLine = false,
\* anchor at the node's center), makes no collision query and leaves placed
\* and the spatial index unchanged.
C7_SmallNodeUnplaced ==
  [][ AtSmallNode =>
        /\ Len(unplaced') = Len(unplaced) + 1
        /\ SubSeq(unplaced', 1, Len(unplaced)) = unplaced
        /\ unplaced'[Len(unplaced')].nodeOrLinkId = sortedNodes[idx].id
        /\ ~ unplaced'[Len(unplaced')].hasLeaderLine
        /\ unplaced'[Len(unplaced')].anchorX
             = Half(Add(sortedNodes[idx].x0, sortedNodes[idx].x1))
        /\ unplaced'[Len(unplaced')].anchorY
             = Half(Add(sortedNodes[idx].y0, sortedNodes[idx].y1))
        /\ placed' = placed
        /\ spatialGrid' = spatialGrid
        /\ queries' = queries ]_vars

\* a call has returned with the label of a node of height below
\* minLabelHeight in unplaced, beside placed labels of other nodes
C7_Witness ==
  /\ Done
  /\ Len(placed) > 0
  /\ queries > 0
  /\ \E k \in 1 .. Len(unplaced) :
       LET node == NodeOf(unplaced[k].nodeOrLinkId)
       IN  /\ IsFinite(node.y0) /\ IsFinite(node.y1)
           /\ node.y1 - node.y0 >= 0
           /\ node.y1 - node.y0 < Px(options.minLabelHeight)

RemoveAt(ns, i) == SubSeq(ns, 1, i - 1) \o SubSeq(ns, i + 1, Len(ns))

\* C8: a node with an undefined coordinate has no label in placed or in
\* unplaced, and the two lists are those the call returns for the input
\* list without that node.
C8_UndefinedIgnored ==
  Done =>
    \A i \in 1 .. Len(nodes) :
      ~ Defined(nodes[i]) =>
        /\ LabelsOf(placed, nodes[i].id) = {}
        /\ LabelsOf(unplaced, nodes[i].id) = {}
        /\ placed = ComputeNodeLabelLayouts(RemoveAt(nodes, i), existingLabels,
                                            EmptyCache, options).placed
        /\ unplaced = ComputeNodeLabelLayouts(RemoveAt(nodes, i), existingLabels,
                                              EmptyCache, options).unplaced

\* a call has returned whose input list held a node with an undefined
\* coordinate between two nodes that have labels
C8_Witness ==
  /\ Done
  /\ Len(nodes) = 3
  /\ ~ Defined(nodes[2])
  /\ Len(placed) > 0
  /\ Len(placed) + Len(unplaced) = 2

\* C9: a node with defined but reversed (x1 < x0 or y1 < y0) or non-finite
\* coordinates is treated as missing geometry: it has no label in placed or
\* in unplaced.
C9_InvalidGeometrySkipped ==
  Done =>
    \A i \in DefinedNodes :
      ( \/ NaN \in {nodes[i].x0, nodes[i].x1, nodes[i].y0, nodes[i].y1}
        \/ Lt(nodes[i].x1, nodes[i].x0)
        \/ Lt(nodes[i].y1, nodes[i].y0) )
      => /\ LabelsOf(placed, nodes[i].id) = {}
         /\ LabelsOf(unplaced, nodes[i].id) = {}

\* the anchor of a label is the center of the one node with the label's id
AnchorIsCenter(label) ==
  /\ Cardinality({i \in 1 .. Len(nodes) : nodes[i].id = label.nodeOrLinkId}) = 1
  /\ label.anchorX = Half(Add(NodeOf(label.nodeOrLinkId).x0,
                              NodeOf(label.nodeOrLinkId).x1))
  /\ label.anchorY = Half(Add(NodeOf(label.nodeOrLinkId).y0,
                              NodeOf(label.nodeOrLinkId).y1))

\* C10: every label of placed and of unplaced, whatever branch produced it,
\* has anchorX = (x0 + x1) / 2 and anchorY = (y0 + y1) / 2 of the node whose
\* id is its nodeOrLinkId.
C10_AnchorIsNodeCenter ==
  /\ \A k \in 1 .. Len(placed) : AnchorIsCenter(placed[k])
  /\ \A k \in 1 .. Len(unplaced) : AnchorIsCenter(unplaced[k])

\* a call has returned a label at a standard position, a detached label and
\* an unplaced label
C10_Witness ==
  /\ Done
  /\ \E k \in 1 .. Len(placed) : placed[k].hasLeaderLine
  /\ \E k \in 1 .. Len(placed) :
       ~ placed[k].hasLeaderLine /\ IsFinite(placed[k].anchorY)
  /\ Len(unplaced) > 0

----------------------------------------------------------------------------
(* Properties of the engine over its life *)

\* what a new engine with these options returns for the arguments of the
\* last call
FreshResult == ComputeNodeLabelLayouts(nodes, existingLabels, EmptyCache, options)

\* the ids of the nodes of the last call
CallIds == {nodes[i].id : i \in 1 .. Len(nodes)}

\* the cache holds the width of a text that is no node of the last call
CacheFromEarlierCall ==
  \E n \in EnginePool :
    /\ n.id \notin CallIds
    /\ CacheKey(n.id, Font(options)) \in DOMAIN textCache

\* C11: the result of computeNodeLabelLayouts depends on its arguments and
\* the configuration only: whatever calls the engine has served before, a
\* call that returns gives the placed and unplaced lists, in order and in
\* every value, that a new engine gives for the same arguments.
C11_SameAsFreshEngine ==
  Done =>
    /\ placed = FreshResult.placed
    /\ unplaced = FreshResult.unplaced

\* a call has returned labels on an engine whose cache and grid were left
\* filled by an earlier call with other nodes
C11_Witness ==
  /\ Done
  /\ CacheFromEarlierCall
  /\ Len(placed) > 0
  /\ Len(unplaced) > 0

\* both canvas dimensions of the configuration are positive
ValidConfig(o) == o.canvasWidth > 0 /\ o.canvasHeight > 0

\* C14: constructing the engine with an invalid configuration, one whose
\* canvasWidth or canvasHeight is not positive, fails at construction
\* instead of yielding a usable engine: no engine holds such a configuration,
\* so no call returns from one.  (The grid cell size is no part of the
\* configuration: LabelLayoutManager builds its grid with the default of 50.)
C14_InvalidConfigRejected == Done => ValidConfig(options)

\* the nodes of the last call whose label text the drawing context refuses
\* to measure
ThrowingNodes ==
  {i \in 1 .. Len(nodes) : HasGeometry(nodes[i]) /\ BackendThrows(nodes[i].id)}

\* C15: when the drawing context throws while a text is measured during
\* computeNodeLabelLayouts, the exception leaves the call: the call returns
\* no result, no label is made for that text with a width put in its place,
\* and the cache holds no entry for the font and text that failed.
C15_ThrowPropagates ==
  /\ Done => ThrowingNodes = {}
  /\ \A k \in 1 .. Len(placed) : ~ BackendThrows(placed[k].text)
  /\ \A k \in 1 .. Len(unplaced) : ~ BackendThrows(unplaced[k].text)
  /\ \A t \in ThrowingTexts : CacheKey(t, Font(options)) \notin DOMAIN textCache
  /\ pc = "threw" => idx \in 1 .. Len(sortedNodes)
                       /\ BackendThrows(sortedNodes[idx].id)

\* a call has ended in the exception after it had placed a label and cached
\* a width
C15_Witness ==
  /\ pc = "threw"
  /\ Len(placed) > 0
  /\ DOMAIN textCache # {}

\* one rectangle ends strictly before the other begins on some axis
StrictlyApart(a, b) ==
  \/ Lt(Add(a.x, a.width), b.x)
  \/ Lt(Add(b.x, b.width), a.x)
  \/ Lt(Add(a.y, a.height), b.y)
  \/ Lt(Add(b.y, b.height), a.y)

OverlapTest(a, b) ==
  /\ Lt(a.x, Add(b.x, b.width))
  /\ Lt(b.x, Add(a.x, a.width))
  /\ Lt(a.y, Add(b.y, b.height))
  /\ Lt(b.y, Add(a.y, a.height))

----------------------------------------------------------------------------
(* SpatialGrid used on its own: insert, checkCollision, clear *)

\* the engine is not in use
EngineIdle ==
  /\ options = [canvasWidth |-> 120, canvasHeight |-> 60]
  /\ textCache = EmptyCache
  /\ nodes = <<>>
  /\ existingLabels = <<>>
  /\ sortedNodes = <<>>
  /\ idx = 1
  /\ placed = <<>>
  /\ unplaced = <<>>
  /\ queries = 0
  /\ pc = "idle"

engineLocals == <<options, textCache, nodes, existingLabels, sortedNodes, idx,
                  placed, unplaced, queries, pc>>

\* rectangles of non-negative width and height, in pixels: within one cell,
\* across cell borders, on a cell border, left of and above the origin, and
\* one of no extent
RectPool ==
  { Rect("A", Px(10), Px(30), Px(20), Px(20)),
    Rect("B", Px(30), Px(30), Px(20), Px(40)),
    Rect("C", Px(20), Px(20), Px(90), Px(40)),
    Rect("F", Px(50), Px(50), Px(50), Px(50)),
    Rect("E", Px(-30), Px(-30), Px(20), Px(20)),
    Rect("D", Px(100), Px(55), 0, 0) }

\* new SpatialGrid()
InitGrid ==
  /\ spatialGrid = EmptyGrid
  /\ probe = ProbeIdle
  /\ EngineIdle
  /\ measured = MeasuredIdle
  /\ layout = LayoutIdle
  /\ canvas = CanvasIdle
  /\ HelpersIdle

\* insert(label)
InsertRect ==
  /\ Len(probe.inserted) < MaxInserts
  /\ \E r \in RectPool :
       /\ spatialGrid' = GridInsert(spatialGrid, r)
       /\ probe' = [inserted |-> Append(probe.inserted, r),
                    rect |-> <<>>, hit |-> FALSE]
  /\ UNCHANGED <<engineLocals, measured, layout, canvas, truncation, hashing>>

\* checkCollision(x, y, width, height)
QueryRect ==
  /\ \E r \in RectPool :
       probe' = [probe EXCEPT
                   !.rect = << r >>,
                   !.hit = CheckCollision(spatialGrid, r.x, r.y, r.width, r.height)]
  /\ UNCHANGED <<spatialGrid, engineLocals, measured, layout, canvas,
                 truncation, hashing>>

\* clear()
ClearGrid ==
  /\ spatialGrid' = EmptyGrid
  /\ probe' = ProbeIdle
  /\ UNCHANGED <<engineLocals, measured, layout, canvas, truncation, hashing>>

NextGrid ==
  \/ InsertRect
  \/ QueryRect
  \/ ClearGrid

SpecGrid == InitGrid /\ [][NextGrid]_vars

\* the interiors of two rectangles of finite coordinates meet
InteriorsMeet(a, b) ==
  ~ \/ a.x + a.width <= b.x
    \/ b.x + b.width <= a.x
    \/ a.y + a.height <= b.y
    \/ b.y + b.height <= a.y

\* the answer of a scan over every rectangle inserted so far
LinearScan(inserted, r) ==
  \E k \in 1 .. Len(inserted) : InteriorsMeet(r, inserted[k])

\* the two rectangles share a stretch of border and no interior point
Touching(a, b) ==
  /\ ~ InteriorsMeet(a, b)
  /\ a.x <= b.x + b.width /\ b.x <= a.x + a.width
  /\ a.y <= b.y + b.height /\ b.y <= a.y + a.height

\* the cell of the top-left corner
CornerCell(r) == << FloorDiv(r.x, Px(CellSize)), FloorDiv(r.y, Px(CellSize)) >>

\* C12: after any sequence of inserts of rectangles of non-negative width
\* and height, checkCollision(rect) answers true exactly when a scan over
\* all inserted rectangles finds one whose interior meets that of rect;
\* rectangles that only touch are not reported and the bucketing by cells
\* hides no overlap.
C12_GridAgreesWithScan ==
  probe.rect # <<>> => (probe.hit <=> LinearScan(probe.inserted, probe.rect[1]))

\* checkCollision has answered true for a rectangle whose only overlapping
\* rectangle has its corner in another cell, while a rectangle that touches
\* it is in the grid too
C12_Witness ==
  /\ probe.rect # <<>>
  /\ probe.hit
  /\ \E k \in 1 .. Len(probe.inserted) : Touching(probe.rect[1], probe.inserted[k])
  /\ \A k \in 1 .. Len(probe.inserted) :
       InteriorsMeet(probe.rect[1], probe.inserted[k])
         => CornerCell(probe.inserted[k]) # CornerCell(probe.rect[1])

----------------------------------------------------------------------------
(* TextMeasurementCache used on its own: measureText, clear *)

\* ctx.font = font; ctx.measureText(text).width of a drawing context whose
\* glyphs widen with the font
ContextWidth(text, font) == Px(Len(text) * (CharWidth + Len(font)))

\* the width measureText(text, font) returns on that context
CachedMeasure(cache, text, font) ==
  IF CacheKey(text, font) \in DOMAIN cache
  THEN cache[CacheKey(text, font)]
  ELSE ContextWidth(text, font)

\* the cache after measureText(text, font) on that context
CachedStore(cache, text, font) ==
  IF CacheKey(text, font) \in DOMAIN cache
  THEN cache
  ELSE [k \in DOMAIN cache \cup {CacheKey(text, font)} |->
          IF k \in DOMAIN cache THEN cache[k] ELSE ContextWidth(text, font)]

\* the fonts and texts measured
CacheFonts == {"a", "a:b"}

CacheTexts == {"b:c", "c", "x"}

\* new TextMeasurementCache(ctx)
InitCache ==
  /\ EngineIdle
  /\ spatialGrid = EmptyGrid
  /\ OutsideIdle

\* measureText(text, font)
MeasureCall ==
  /\ \E text \in CacheTexts, font \in CacheFonts :
       /\ measured' = [text |-> text, font |-> font,
                       width |-> CachedMeasure(textCache, text, font)]
       /\ textCache' = CachedStore(textCache, text, font)
  /\ UNCHANGED <<options, spatialGrid, nodes, existingLabels, sortedNodes, idx,
                 placed, unplaced, queries, pc, probe, layout, canvas,
                 truncation, hashing>>

\* clear()
ClearCache ==
  /\ textCache' = EmptyCache
  /\ UNCHANGED <<options, spatialGrid, nodes, existingLabels, sortedNodes, idx,
                 placed, unplaced, queries, pc, probe, measured, layout, canvas,
                 truncation, hashing>>

NextCache ==
  \/ MeasureCall
  \/ ClearCache

SpecCache == InitCache /\ [][NextCache]_vars

\* C13: measureText(text, font) returns the width the drawing context gives
\* for exactly that font and text; a width stored for one pair is never
\* returned for another pair, whatever strings font and text are.
C13_WidthOfThatPair ==
  measured # MeasuredIdle =>
    measured.width = ContextWidth(measured.text, measured.font)

----------------------------------------------------------------------------
(* SankeyCanvas (src/src/components/SankeyCanvas.tsx)                      *)
(*                                                                         *)
(* The component is a React.Component without shouldComponentUpdate: every *)
(* setState, like every render of the parent, makes React render it again  *)
(* and call componentDidUpdate.  The handlers below include that call.     *)

\* a link of the laid-out data: source and target are indices into nodes
Link(source, target, y0, y1, width) ==
  [source |-> source, target |-> target, y0 |-> y0, y1 |-> y1, width |-> width]

\* the laid-out data the component is given: three nodes that share no
\* point and one link, in pixels
CanvasData ==
  [ nodes |-> << Node("Tall", Px(10), Px(25), Px(10), Px(50)),
                 Node("S",    Px(60), Px(75), Px(10), Px(15)),
                 Node("East", Px(100), Px(115), Px(10), Px(40)) >>,
    links |-> << Link(1, 2, Px(20), Px(12), Px(4)) >> ]

\* the props; an optional flag that is not passed is "undefined"
PropsPool ==
  [ data : {CanvasData}, width : {120}, height : {60},
    labelMinHeight : {8},
    enableSmartLabels : BOOLEAN,
    enableHoverLabels : {"true", "false", "undefined"},
    enableDetachedLabels : BOOLEAN ]

\* pointer positions relative to the canvas, in pixels: in Tall, in S, in
\* East, on the link, on empty space
PointerPool == { <<15, 30>>, <<65, 12>>, <<110, 20>>, <<40, 17>>, <<90, 55>> }

\* the options initializeLabelLayout builds from the props
CanvasOptions(props) ==
  [ minLabelHeight |-> props.labelMinHeight, fontSize |-> 12,
    fontFamily |-> "sans-serif", padding |-> 2, leaderLineThreshold |-> 200,
    canvasWidth |-> props.width, canvasHeight |-> props.height,
    enableHoverLabels |-> props.enableHoverLabels # "false",
    enableDetachedLabels |-> props.enableDetachedLabels ]

\* the instance once result has been stored
WithLayout(c, result) ==
  [c EXCEPT !.placedLabels = result.placed,
            !.unplacedLabels = result.unplaced,
            !.layoutRan = TRUE]

\* initializeLabelLayout()
InitializeLabelLayout(c) ==
  IF ~ c.props.enableSmartLabels
  THEN [c EXCEPT !.placedLabels = <<>>, !.unplacedLabels = <<>>]
  ELSE WithLayout(c, ComputeNodeLabelLayouts(c.props.data.nodes, <<>>,
                                             EmptyCache, CanvasOptions(c.props)))

\* componentDidUpdate()
ComponentDidUpdate(c) ==
  [InitializeLabelLayout(c) EXCEPT !.needsRedraw = TRUE]

\* this.setState(patch): the patch is merged into the state, React renders
\* the component and calls componentDidUpdate
SetState(c, patch) ==
  ComponentDidUpdate(
    [c EXCEPT !.state = [f \in DOMAIN c.state |->
                           IF f \in DOMAIN patch THEN patch[f] ELSE c.state[f]]])

\* the node hit test of handleMouseMove: the index of the first node whose
\* rectangle, borders included, holds the point; 0 for null
NodeHits(data, x, y) ==
  {i \in 1 .. Len(data.nodes) :
     /\ Defined(data.nodes[i])
     /\ Le(data.nodes[i].x0, x) /\ Le(x, data.nodes[i].x1)
     /\ Le(data.nodes[i].y0, y) /\ Le(y, data.nodes[i].y1)}

FoundNode(data, x, y) == MinOrZero(NodeHits(data, x, y))

\* y of the cubic curve at t = n / d, times d^3
CurveYTimes(y0, y1, n, d) ==
    y0 * (d - n) * (d - n) * (d - n)
  + 3 * y0 * n * (d - n) * (d - n)
  + 3 * y1 * n * n * (d - n)
  + y1 * n * n * n

Abs(v) == IF v < 0 THEN - v ELSE v

\* isPointInLink(x, y, link), on whole pixels
IsPointInLink(data, x, y, link) ==
  LET x0 == data.nodes[link.source].x1 \div 1000
      x1 == data.nodes[link.target].x0 \div 1000
      y0 == link.y0 \div 1000
      y1 == IF link.y1 = 0 THEN link.y0 \div 1000 ELSE link.y1 \div 1000
      d  == x1 - x0
  IN  /\ ~ (x < x0 \/ x > x1)
      /\ d > 0
      /\ 2 * Abs(y * d * d * d - CurveYTimes(y0, y1, x - x0, d))
           <= (link.width \div 1000) * d * d * d

\* the link hit test: the index of the first link that holds the point, 0
\* for null; links are tested only when no node was found
FoundLink(data, x, y) ==
  IF FoundNode(data, Px(x), Px(y)) # 0 THEN 0
  ELSE MinOrZero({k \in 1 .. Len(data.links) :
                    IsPointInLink(data, x, y, data.links[k])})

\* HasUnplacedLabel as it would be if the label were looked up in placedLabels
HasPlacedLabel(c, id) ==
  \E k \in 1 .. Len(c.placedLabels) : c.placedLabels[k].nodeOrLinkId = id

\* this.unplacedLabels.find(l => l.nodeOrLinkId === foundNode.id) found one
HasUnplacedLabel(c, id) ==
  \E k \in 1 .. Len(c.unplacedLabels) : c.unplacedLabels[k].nodeOrLinkId = id

\* the argument of setState in handleMouseMove
MovePatch(c, node, link) ==
  IF node # 0
  THEN [ showTooltip |-> TRUE,
         hoverLabelText |->
           IF HasUnplacedLabel(c, c.props.data.nodes[node].id)
           THEN c.props.data.nodes[node].id ELSE "",
         showHoverLabel |->
           HasUnplacedLabel(c, c.props.data.nodes[node].id)
             /\ c.props.enableHoverLabels # "false" ]
  ELSE IF link # 0
  THEN [ showTooltip |-> TRUE, showHoverLabel |-> FALSE ]
  ELSE [ showTooltip |-> FALSE, showHoverLabel |-> FALSE ]

\* the members handleMouseMove sets when the hovered node or link changed
Hover(c, node, link) ==
  IF node # c.hoveredNode \/ link # c.hoveredLink
  THEN [c EXCEPT !.hoveredNode = node, !.hoveredLink = link,
                 !.needsRedraw = TRUE]
  ELSE c

\* the instance at the start of a handler: what the last handler did is
\* forgotten
Enter(c, handler, pointer) ==
  [c EXCEPT !.last = handler, !.pointer = pointer,
            !.layoutRan = FALSE, !.drew = FALSE]

\* Render as it would be if every frame drew
RenderEveryFrame(c) ==
  [c EXCEPT !.drew = TRUE, !.needsRedraw = FALSE, !.rafId = TRUE]

\* render of startRenderLoop: draw if needsRedraw, then ask for the next frame
Render(c) ==
  [c EXCEPT !.drew = c.needsRedraw, !.needsRedraw = FALSE, !.rafId = TRUE]

\* ComponentWillUnmount as it would be without cancelAnimationFrame
ComponentWillUnmountWithoutCancel(c) == [c EXCEPT !.pc = "unmounted"]

\* componentWillUnmount: rafId is not null once the component is mounted, so
\* the requested frame is cancelled; the two listeners are removed
ComponentWillUnmount(c) == [c EXCEPT !.pc = "unmounted", !.rafId = FALSE]

\* handleMouseMove with foundNode and foundLink
MouseMoveTo(c, node, link) ==
  Hover(SetState(c, MovePatch(c, node, link)), node, link)

canvasRest == <<options, textCache, spatialGrid, nodes, existingLabels,
                sortedNodes, idx, placed, unplaced, queries, pc, probe,
                measured, layout, truncation, hashing>>

\* new SankeyCanvas(props)
InitCanvas ==
  /\ EngineIdle
  /\ spatialGrid = EmptyGrid
  /\ probe = ProbeIdle
  /\ measured = MeasuredIdle
  /\ layout = LayoutIdle
  /\ HelpersIdle
  /\ \E props \in PropsPool :
       canvas = [ pc |-> "constructed", props |-> props,
                  state |-> [ showTooltip |-> FALSE, hoverLabelText |-> "",
                              showHoverLabel |-> FALSE ],
                  rafId |-> FALSE, hoveredNode |-> 0, hoveredLink |-> 0,
                  needsRedraw |-> TRUE,
                  placedLabels |-> <<>>, unplacedLabels |-> <<>>,
                  last |-> "constructor", pointer |-> <<>>,
                  layoutRan |-> FALSE, drew |-> FALSE ]

\* componentDidMount()
Mount ==
  /\ canvas.pc = "constructed"
  /\ canvas' = [Render(InitializeLabelLayout(Enter(canvas, "mount", <<>>)))
                  EXCEPT !.pc = "mounted"]
  /\ UNCHANGED canvasRest

\* the parent renders the component with props: componentDidUpdate()
PropsChange ==
  /\ canvas.pc = "mounted"
  /\ \E props \in PropsPool :
       canvas' = ComponentDidUpdate(
                   [Enter(canvas, "update", canvas.pointer) EXCEPT !.props = props])
  /\ UNCHANGED canvasRest

\* handleMouseMove(e)
MouseMove ==
  /\ canvas.pc = "mounted"
  /\ \E p \in PointerPool :
       canvas' = MouseMoveTo(Enter(canvas, "mousemove", p),
                             FoundNode(canvas.props.data, Px(p[1]), Px(p[2])),
                             FoundLink(canvas.props.data, p[1], p[2]))
  /\ UNCHANGED canvasRest

\* handleMouseLeave()
MouseLeave ==
  /\ canvas.pc = "mounted"
  /\ canvas' = SetState([Enter(canvas, "mouseleave", <<>>)
                           EXCEPT !.hoveredNode = 0, !.hoveredLink = 0],
                        [ showTooltip |-> FALSE, showHoverLabel |-> FALSE ])
  /\ UNCHANGED canvasRest

\* the callback given to requestAnimationFrame: the browser runs it when the
\* frame it was requested for has not been cancelled
Frame ==
  /\ canvas.pc \in {"mounted", "unmounted"}
  /\ canvas.rafId
  /\ canvas' = Render(Enter(canvas, "frame", canvas.pointer))
  /\ UNCHANGED canvasRest

\* componentWillUnmount()
Unmount ==
  /\ canvas.pc = "mounted"
  /\ canvas' = ComponentWillUnmount(Enter(canvas, "unmount", <<>>))
  /\ UNCHANGED canvasRest

NextCanvas ==
  \/ Mount
  \/ PropsChange
  \/ MouseMove
  \/ MouseLeave
  \/ Frame
  \/ Unmount

SpecCanvas == InitCanvas /\ [][NextCanvas]_vars

----------------------------------------------------------------------------
(* Properties of SankeyCanvas *)

\* the nodes whose rectangle holds the pointer position of the last event
NodesUnderPointer ==
  IF canvas.pointer = <<>> THEN {}
  ELSE {i \in 1 .. Len(canvas.props.data.nodes) :
          /\ canvas.props.data.nodes[i].x0 <= Px(canvas.pointer[1])
          /\ Px(canvas.pointer[1]) <= canvas.props.data.nodes[i].x1
          /\ canvas.props.data.nodes[i].y0 <= Px(canvas.pointer[2])
          /\ Px(canvas.pointer[2]) <= canvas.props.data.nodes[i].y1}

\* the ids of the labels of a list
IdsOf(labels) == {labels[k].nodeOrLinkId : k \in 1 .. Len(labels)}

\* C17: after a pointer move to a position inside the rectangle of a node
\* whose id has a label in unplaced, the hover label is shown with that id,
\* unless enableHoverLabels is false; it is not shown when the node's label
\* is in placed, when enableHoverLabels is false, when the pointer is over
\* a link or empty space, and after the pointer has left the canvas.
C17_HoverLabel ==
  /\ canvas.pc = "mounted" /\ canvas.last = "mousemove" =>
       /\ \A i \in NodesUnderPointer :
            /\ ( /\ canvas.props.data.nodes[i].id \in IdsOf(canvas.unplacedLabels)
                 /\ canvas.props.enableHoverLabels # "false" )
               => /\ canvas.state.showHoverLabel
                  /\ canvas.state.hoverLabelText = canvas.props.data.nodes[i].id
            /\ canvas.props.data.nodes[i].id \in IdsOf(canvas.placedLabels)
               => ~ canvas.state.showHoverLabel
       /\ canvas.props.enableHoverLabels = "false" => ~ canvas.state.showHoverLabel
       /\ NodesUnderPointer = {} => ~ canvas.state.showHoverLabel
  /\ canvas.pc = "mounted" /\ canvas.last = "mouseleave" =>
       ~ canvas.state.showHoverLabel

\* the pointer has moved onto the small node S, whose label is unplaced, and
\* the hover label shows its id
C17_Witness ==
  /\ canvas.pc = "mounted"
  /\ canvas.last = "mousemove"
  /\ NodesUnderPointer # {}
  /\ canvas.state.showHoverLabel
  /\ canvas.state.hoverLabelText = "S"
  /\ IdsOf(canvas.placedLabels) # {}

\* C18: a label layout pass (computeNodeLabelLayouts on a rebuilt grid) runs
\* on mount and when the props change only: a mouse-move event, a
\* mouse-leave event and a paint frame never run one.
C18_NoLayoutOnMouseOrFrame ==
  canvas.pc = "mounted" /\ canvas.last \in {"mousemove", "mouseleave", "frame"}
    => ~ canvas.layoutRan

\* C19: a frame of the render loop calls draw exactly when needsRedraw is
\* set and leaves the flag cleared; every component update and every change
\* of the hovered node or link leaves the flag set, and the flag stays set
\* until a frame draws; a frame that no such change precedes draws nothing.
C19_DirtyFlag ==
  [][ /\ canvas'.pc = "mounted" /\ canvas'.last = "frame"
         => /\ canvas'.drew = canvas.needsRedraw
            /\ ~ canvas'.needsRedraw
      /\ canvas'.pc = "mounted"
           /\ canvas'.last \in {"update", "mousemove", "mouseleave"}
         => canvas'.needsRedraw /\ ~ canvas'.drew
      /\ canvas'.pc = "mounted"
           /\ ( canvas'.hoveredNode # canvas.hoveredNode
                \/ canvas'.hoveredLink # canvas.hoveredLink )
         => canvas'.needsRedraw
      /\ canvas.pc = "mounted" /\ canvas'.pc = "mounted"
           /\ canvas.needsRedraw /\ ~ canvas'.needsRedraw
         => canvas'.last = "frame" /\ canvas'.drew
    ]_vars

\* a frame has drawn while a node is hovered
C19_Witness ==
  /\ canvas.pc = "mounted"
  /\ canvas.last = "frame"
  /\ canvas.drew
  /\ canvas.hoveredNode # 0

----------------------------------------------------------------------------
(* computeLayout (src/src/lib/layout.ts) up to the call of d3-sankey       *)
(*                                                                         *)
(* A label is a sequence of characters.  A value is a number in            *)
(* thousandths, or NaN.  d3-sankey adds the geometry to the nodes and      *)
(* links it is given and leaves their values alone; it rejects a graph     *)
(* with a cycle, so the rows of the model form none.                       *)

Upper(ch) == CASE ch = "a" -> "A" [] ch = "b" -> "B" [] ch = "c" -> "C"
               [] OTHER -> ch

Lower(ch) == CASE ch = "A" -> "a" [] ch = "B" -> "b" [] ch = "C" -> "c"
               [] OTHER -> ch

\* normalizeLabel: split at spaces, each word with its first character in
\* upper case and the rest in lower case, joined with spaces
NormalizeLabel(label) ==
  [i \in 1 .. Len(label) |->
     IF i = 1 \/ label[i - 1] = " " THEN Upper(label[i]) ELSE Lower(label[i])]

\* allowNegative ? value : Math.max(0, value)
ClampValue(v, allowNegative) ==
  IF allowNegative \/ ~ IsFinite(v) THEN v
  ELSE IF v < 0 THEN 0 ELSE v

\* Math.abs(value) >= minValue
PassesMinValue(v, minValue) == IsFinite(v) /\ Abs(v) >= minValue

\* the row the map step makes of a row
ProcessRow(row, o) ==
  [ source |-> NormalizeLabel(row.source),
    target |-> NormalizeLabel(row.target),
    value  |-> ClampValue(row.value, o.allowNegative) ]

\* rows.map(...).filter(...)
RECURSIVE MapFilter(_, _, _)
MapFilter(rows, o, k) ==
  IF k > Len(rows) THEN <<>>
  ELSE IF PassesMinValue(ProcessRow(rows[k], o).value, o.minValue)
       THEN << ProcessRow(rows[k], o) >> \o MapFilter(rows, o, k + 1)
       ELSE MapFilter(rows, o, k + 1)

\* `${row.source}|${row.target}`
RowKey(row) == row.source \o << "|" >> \o row.target

\* the position in acc of the entry with the key of row, 0 if there is none
KeyIndex(acc, row) ==
  MinOrZero({j \in 1 .. Len(acc) : RowKey(acc[j]) = RowKey(row)})

\* one step of processedRows.forEach on the aggregate map, kept in
\* insertion order
AggregateInto(acc, row, j) ==
  IF j # 0 THEN [acc EXCEPT ![j].value = Add(@, row.value)]
  ELSE Append(acc, row)

RECURSIVE Aggregate(_, _, _)
Aggregate(acc, rows, k) ==
  IF k > Len(rows) THEN acc
  ELSE Aggregate(AggregateInto(acc, rows[k], KeyIndex(acc, rows[k])), rows, k + 1)

\* if (!nodeMap.has(id)) nodeMap.set(id, { id })
AddId(ids, id) ==
  IF \E i \in 1 .. Len(ids) : ids[i] = id THEN ids ELSE Append(ids, id)

\* the ids of nodeMap in insertion order: source, then target, row by row
RECURSIVE NodeIds(_, _, _)
NodeIds(ids, rows, k) ==
  IF k > Len(rows) THEN ids
  ELSE NodeIds(AddId(AddId(ids, rows[k].source), rows[k].target), rows, k + 1)

\* nodeIndexMap.get(id), 1-based
NodeIndex(ids, id) == CHOOSE i \in 1 .. Len(ids) : ids[i] = id

\* the links built from the processed rows
BuildLinks(rows, ids) ==
  [k \in 1 .. Len(rows) |->
     [ source |-> NodeIndex(ids, rows[k].source),
       target |-> NodeIndex(ids, rows[k].target),
       value  |-> rows[k].value ]]

\* the labels and values of the rows
RowPairs ==
  { << <<"a">>, <<"b">> >>, << <<"A">>, <<"b">> >>,
    << <<"a">>, <<"c", " ", "B">> >>, << <<"b">>, <<"c", " ", "b">> >>,
    << <<"a", "|", "1">>, <<"2">> >>, << <<"a">>, <<"1", "|", "2">> >> }

RowValues == {10000, 5000, -5000, 20, 5, NaN}

RowPool ==
  { [source |-> pr[1], target |-> pr[2], value |-> v] :
      pr \in RowPairs, v \in RowValues }

RECURSIVE RowLists(_)
RowLists(n) ==
  IF n = 0 THEN { <<>> }
  ELSE RowLists(n - 1) \cup
       { Append(l, r) : l \in {q \in RowLists(n - 1) : Len(q) = n - 1},
                        r \in RowPool }

\* the options; minValue is in thousandths, 10 being the default 0.01
LayoutOptionsPool ==
  [ allowNegative : BOOLEAN, minValue : {10}, aggregateDuplicates : BOOLEAN ]

layoutRest == <<options, textCache, spatialGrid, nodes, existingLabels,
                sortedNodes, idx, placed, unplaced, queries, pc, probe,
                measured, canvas, truncation, hashing>>

\* computeLayout(rows, width, height, options) is entered
InitLayout ==
  /\ EngineIdle
  /\ spatialGrid = EmptyGrid
  /\ probe = ProbeIdle
  /\ measured = MeasuredIdle
  /\ canvas = CanvasIdle
  /\ HelpersIdle
  /\ \E rows \in RowLists(MaxRows), o \in LayoutOptionsPool :
       layout = [ pc |-> "entered", rows |-> rows, options |-> o,
                  processedRows |-> <<>>, links |-> <<>>, nodes |-> <<>> ]

\* !rows || rows.length === 0: return { nodes: [], links: [] }
ReturnEmpty ==
  /\ layout.pc = "entered"
  /\ Len(layout.rows) = 0
  /\ layout' = [layout EXCEPT !.pc = "returned"]
  /\ UNCHANGED layoutRest

\* the map and the filter over the rows
FilterRows ==
  /\ layout.pc = "entered"
  /\ Len(layout.rows) > 0
  /\ layout' = [layout EXCEPT
                  !.pc = "filtered",
                  !.processedRows = MapFilter(layout.rows, layout.options, 1)]
  /\ UNCHANGED layoutRest

\* if (aggregateDuplicates) { ... }
AggregateRows ==
  /\ layout.pc = "filtered"
  /\ layout.options.aggregateDuplicates
  /\ layout' = [layout EXCEPT
                  !.pc = "aggregated",
                  !.processedRows = Aggregate(<<>>, layout.processedRows, 1)]
  /\ UNCHANGED layoutRest

\* aggregateDuplicates is false
KeepRows ==
  /\ layout.pc = "filtered"
  /\ ~ layout.options.aggregateDuplicates
  /\ layout' = [layout EXCEPT !.pc = "aggregated"]
  /\ UNCHANGED layoutRest

\* the nodes and links are built, laid out by d3-sankey and returned
ReturnLayout ==
  /\ layout.pc = "aggregated"
  /\ layout' = [layout EXCEPT
                  !.pc = "returned",
                  !.nodes = NodeIds(<<>>, layout.processedRows, 1),
                  !.links = BuildLinks(layout.processedRows,
                                       NodeIds(<<>>, layout.processedRows, 1))]
  /\ UNCHANGED layoutRest

NextLayout ==
  \/ ReturnEmpty
  \/ FilterRows
  \/ AggregateRows
  \/ KeepRows
  \/ ReturnLayout

SpecLayout == InitLayout /\ [][NextLayout]_vars

\* C20: every link computeLayout returns has |value| >= minValue, and when
\* allowNegative is false no returned link has a negative value, whatever
\* allowNegative and aggregateDuplicates are.
C20_LinksPassMinValue ==
  layout.pc = "returned" =>
    \A k \in 1 .. Len(layout.links) :
      /\ PassesMinValue(layout.links[k].value, layout.options.minValue)
      /\ ~ layout.options.allowNegative => layout.links[k].value >= 0

\* the rows that pass the map and the filter of the last call
Surviving == MapFilter(layout.rows, layout.options, 1)

\* the pairs (normalized source, normalized target) of a list of rows
PairsOf(rows) == {<< rows[k].source, rows[k].target >> : k \in 1 .. Len(rows)}

\* the sum of the values of the rows k .. Len(rows) that have this pair
RECURSIVE PairSum(_, _, _)
PairSum(rows, pair, k) ==
  IF k > Len(rows) THEN 0
  ELSE IF << rows[k].source, rows[k].target >> = pair
       THEN rows[k].value + PairSum(rows, pair, k + 1)
       ELSE PairSum(rows, pair, k + 1)

\* the pair of ids a returned link joins
LinkPair(k) ==
  << layout.nodes[layout.links[k].source], layout.nodes[layout.links[k].target] >>

\* C21: with aggregateDuplicates, computeLayout returns exactly one link for
\* each distinct pair (normalized source, normalized target) among the rows
\* that pass the minValue filter, its value the sum of the values of those
\* rows, and rows of different pairs are never merged into one link; without
\* aggregateDuplicates it returns one link for each surviving row.
C21_OneLinkPerPair ==
  layout.pc = "returned" =>
    IF layout.options.aggregateDuplicates
    THEN /\ Len(layout.links) = Cardinality(PairsOf(Surviving))
         /\ \A pair \in PairsOf(Surviving) :
              \E k \in 1 .. Len(layout.links) :
                /\ LinkPair(k) = pair
                /\ layout.links[k].value = PairSum(Surviving, pair, 1)
    ELSE /\ Len(layout.links) = Len(Surviving)
         /\ \A k \in 1 .. Len(layout.links) :
              /\ LinkPair(k) = << Surviving[k].source, Surviving[k].target >>
              /\ layout.links[k].value = Surviving[k].value

----------------------------------------------------------------------------
(* truncateText (src/src/lib/label-layout.ts)                              *)
(*                                                                         *)
(* A text is a sequence of characters; the drawing context is the one of   *)
(* BackendWidth, which measures by the number of characters.               *)

\* the state of the other components while a helper function runs
ComponentsIdle ==
  /\ EngineIdle
  /\ spatialGrid = EmptyGrid
  /\ probe = ProbeIdle
  /\ measured = MeasuredIdle
  /\ layout = LayoutIdle
  /\ canvas = CanvasIdle

components == <<options, textCache, spatialGrid, nodes, existingLabels,
                sortedNodes, idx, placed, unplaced, queries, pc, probe,
                measured, layout, canvas>>

Ellipsis == << ".", ".", "." >>

\* truncated.slice(0, -1) as it would be if the first character were dropped
DropFirst(text) == SubSeq(text, 2, Len(text))

\* truncated.slice(0, -1)
DropLast(text) == SubSeq(text, 1, Len(text) - 1)

\* width <= maxWidth for the width the context measures
Fits(text, maxWidth) == Le(BackendWidth(text), maxWidth)

Letters == << "S", "o", "l", "a", "r", "P", "V" >>

\* the texts: the beginnings of a word, the empty text among them
TruncTexts == {SubSeq(Letters, 1, n) : n \in 0 .. MaxText}

\* maxWidth in pixels
TruncWidths == {0, Px(10), Px(23), Px(24), Px(31), Px(32), Px(39), Px(40), Px(47)}

\* truncateText(ctx, text, maxWidth, font) is entered
InitTruncate ==
  /\ ComponentsIdle
  /\ hashing = [pc |-> "idle"]
  /\ \E text \in TruncTexts, maxWidth \in TruncWidths :
       truncation = [ pc |-> "entered", text |-> text, maxWidth |-> maxWidth,
                      truncated |-> text, result |-> <<>> ]

\* fullWidth <= maxWidth: return text
ReturnFull ==
  /\ truncation.pc = "entered"
  /\ Fits(truncation.text, truncation.maxWidth)
  /\ truncation' = [truncation EXCEPT !.pc = "returned", !.result = truncation.text]
  /\ UNCHANGED <<components, hashing>>

\* the text is too wide: let truncated = text
StartTruncating ==
  /\ truncation.pc = "entered"
  /\ ~ Fits(truncation.text, truncation.maxWidth)
  /\ truncation' = [truncation EXCEPT !.pc = "loop"]
  /\ UNCHANGED <<components, hashing>>

\* an iteration of the while loop after which truncated + ellipsis is still
\* too wide
SliceTooWide ==
  /\ truncation.pc = "loop"
  /\ Len(truncation.truncated) > 0
  /\ ~ Fits(DropLast(truncation.truncated) \o Ellipsis, truncation.maxWidth)
  /\ truncation' = [truncation EXCEPT !.truncated = DropLast(@)]
  /\ UNCHANGED <<components, hashing>>

\* an iteration of the while loop that returns truncated + ellipsis
SliceFits ==
  /\ truncation.pc = "loop"
  /\ Len(truncation.truncated) > 0
  /\ Fits(DropLast(truncation.truncated) \o Ellipsis, truncation.maxWidth)
  /\ truncation' = [truncation EXCEPT
                      !.pc = "returned",
                      !.truncated = DropLast(@),
                      !.result = DropLast(truncation.truncated) \o Ellipsis]
  /\ UNCHANGED <<components, hashing>>

\* the loop has emptied truncated: return ellipsis
ReturnEllipsis ==
  /\ truncation.pc = "loop"
  /\ Len(truncation.truncated) = 0
  /\ truncation' = [truncation EXCEPT !.pc = "returned", !.result = Ellipsis]
  /\ UNCHANGED <<components, hashing>>

NextTruncate ==
  \/ ReturnFull
  \/ StartTruncating
  \/ SliceTooWide
  \/ SliceFits
  \/ ReturnEllipsis

SpecTruncate == InitTruncate /\ [][NextTruncate]_vars

\* the first n characters of the text of the call
Prefix(n) == SubSeq(truncation.text, 1, n)

----------------------------------------------------------------------------
(* hashColor (src/src/lib/color.ts)                                        *)
(*                                                                         *)
(* A string is the sequence of its UTF-16 code units.  hash leaves the     *)
(* range of 32 bits, so the model keeps it in two parts: the number        *)
(* hi * 2^16 + lo with 0 <= lo < 2^16.                                     *)

Limb == 65536

\* the number hi * 2^16 + lo with lo brought into 0 .. 2^16 - 1
Num(hi, lo) == [hi |-> hi + (lo \div Limb), lo |-> lo % Limb]

\* a signed 16-bit value from its bit pattern
Signed16(u) == IF u >= 32768 THEN u - Limb ELSE u

\* hash << 5: hash is converted to 32 bits, shifted, and the 32 bits that
\* remain are read as a signed integer
ShiftLeft5(h) ==
  [ hi |-> Signed16(((h.hi % 2048) * 32 + ((h.lo * 32) \div Limb)) % Limb),
    lo |-> (h.lo * 32) % Limb ]

\* str.charCodeAt(i) + ((hash << 5) - hash)
HashStep(h, code) ==
  Num(ShiftLeft5(h).hi - h.hi, code + ShiftLeft5(h).lo - h.lo)

\* hash % 360: the remainder has the sign of hash
Hue(h) ==
  IF h.hi >= 0 THEN ((h.hi % 360) * (Limb % 360) + h.lo) % 360
  ELSE - ((((- h.hi) % 360) * (Limb % 360) - h.lo) % 360)

\* `hsl(${h}, 70%, 60%)`
HslString(h) == "hsl(" \o ToString(h) \o ", 70%, 60%)"

\* the code units of the strings: "a", "z" and the space
CodePool == {97, 122, 32}

RECURSIVE CodeLists(_)
CodeLists(n) ==
  IF n = 0 THEN { <<>> }
  ELSE CodeLists(n - 1) \cup
       { Append(l, c) : l \in {q \in CodeLists(n - 1) : Len(q) = n - 1},
                        c \in CodePool }

\* hashColor(str) is entered: hash = 0, i = 0
InitHash ==
  /\ ComponentsIdle
  /\ truncation = [pc |-> "idle"]
  /\ \E str \in CodeLists(MaxChars) :
       hashing = [ pc |-> "loop", str |-> str, i |-> 0,
                   hash |-> Num(0, 0), result |-> "" ]

\* one iteration of the for loop
HashChar ==
  /\ hashing.pc = "loop"
  /\ hashing.i < Len(hashing.str)
  /\ hashing' = [hashing EXCEPT
                   !.hash = HashStep(@, hashing.str[hashing.i + 1]),
                   !.i = @ + 1]
  /\ UNCHANGED <<components, truncation>>

\* h = hash % 360; return the hsl string
ReturnColor ==
  /\ hashing.pc = "loop"
  /\ hashing.i >= Len(hashing.str)
  /\ hashing' = [hashing EXCEPT !.pc = "returned",
                                !.result = HslString(Hue(hashing.hash))]
  /\ UNCHANGED <<components, truncation>>

NextHash ==
  \/ HashChar
  \/ ReturnColor

SpecHash == InitHash /\ [][NextHash]_vars

\* C23: for every string hashColor returns a string hsl(h, 70%, 60%) in which
\* h is a non-negative integer below 360, the wrap-around to 32 bits of the
\* shift in the loop taken into account (and the same string for the same
\* input, the result being a function of the input).
C23_HueInRange ==
  hashing.pc = "returned" =>
    \E h \in 0 .. 359 : hashing.result = HslString(h)

----------------------------------------------------------------------------
(* computeNodeLabelLayouts on nodes that compete for their label positions *)

\* two nodes of one height on either side of the canvas whose preferred
\* positions overlap, a shorter node that must give way to the first, and
\* nodes that are too small, without geometry or without numbers
PlacementPool ==
  { Node("Tall",  Px(10), Px(25), Px(10), Px(50)),
    Node("Twin",  Px(100), Px(115), Px(10), Px(50)),
    Node("W",     Px(60), Px(75), Px(20), Px(40)),
    Node("S",     Px(60), Px(75), Px(10), Px(15)),
    Node("U",     Px(10), Px(25), Px(10), Undef),
    Node("N",     Px(10), Px(25), NaN, NaN) }

\* computeNodeLabelLayouts(ns, existing) up to the loop
CallPlacement ==
  /\ pc = "idle"
  /\ \E ns \in {l \in ListsOf(PlacementPool, MaxNodes) : DistinctIds(l)},
        existing \in ExistingPool :
       /\ nodes' = ns
       /\ existingLabels' = existing
       /\ spatialGrid' = CallStart(textCache, existing).grid
       /\ sortedNodes' = SortNodes(ns)
  /\ placed' = <<>>
  /\ unplaced' = <<>>
  /\ queries' = 0
  /\ idx' = 1
  /\ pc' = "loop"
  /\ UNCHANGED <<options, textCache>>
  /\ UNCHANGED outside

NextPlacement ==
  \/ CallPlacement
  \/ SkipNode
  \/ TooSmall
  \/ PlaceStandard
  \/ PlaceDetached
  \/ MarkUnplaced
  \/ DropNode
  \/ Return

SpecPlacement == Init /\ [][NextPlacement]_vars

\* a rectangle of this size at this position
RectAt(pos, width, height) ==
  [x |-> pos.x, y |-> pos.y, width |-> width, height |-> height]

\* the rectangle lies inside the canvas
InCanvas(r) ==
  /\ Le(0, r.x) /\ Le(Add(r.x, r.width), Px(options.canvasWidth))
  /\ Le(0, r.y) /\ Le(Add(r.y, r.height), Px(options.canvasHeight))

\* the rectangles the index holds when the node of placed[k] has its turn:
\* those of existingLabels and of the labels placed before it
IndexBefore(k) == existingLabels \o SubSeq(placed, 1, k - 1)

\* the rectangle is in bounds and overlaps none of the rectangles of `index`
FreeIn(index, r) ==
  /\ InCanvas(r)
  /\ \A e \in 1 .. Len(index) : ~ StrictOverlap(r, index[e])

\* the two standard positions of a node for a label of this size
RightOf(node, height) ==
  [x |-> Add(node.x1, Px(6)),
   y |-> Sub(Half(Add(node.y0, node.y1)), Half(height))]

LeftOf(node, width, height) ==
  [x |-> Sub(Sub(node.x0, width), Px(6)),
   y |-> Sub(Half(Add(node.y0, node.y1)), Half(height))]

\* the side tried first: right for a node that starts in the left half
PreferredOf(node, width, height) ==
  IF Lt(node.x0, Half(Px(options.canvasWidth)))
  THEN RightOf(node, height) ELSE LeftOf(node, width, height)

PositionOf(label) == [x |-> label.x, y |-> label.y]

\* C24: a label of placed with hasLeaderLine = false sits at one of the two
\* standard positions of its node (x = x1 + 6 or x = x0 - width - 6,
\* y = anchorY - height / 2); it sits at the preferred one, right of a node
\* with x0 < canvasWidth / 2 and left of any other node, whenever that
\* position was in bounds and free of the rectangles in the index at the
\* node's turn, and at the opposite one only when the preferred one was not.
C24_StandardSide ==
  \A k \in 1 .. Len(placed) :
    ~ placed[k].hasLeaderLine =>
      /\ PositionOf(placed[k])
           \in { RightOf(NodeOf(placed[k].nodeOrLinkId), placed[k].height),
                 LeftOf(NodeOf(placed[k].nodeOrLinkId),
                        placed[k].width, placed[k].height) }
      /\ placed[k].y = Sub(placed[k].anchorY, Half(placed[k].height))
      /\ FreeIn(IndexBefore(k),
                RectAt(PreferredOf(NodeOf(placed[k].nodeOrLinkId),
                                   placed[k].width, placed[k].height),
                       placed[k].width, placed[k].height))
           => PositionOf(placed[k])
                = PreferredOf(NodeOf(placed[k].nodeOrLinkId),
                              placed[k].width, placed[k].height)

\* a call has returned a label at the right of a node of the right half,
\* whose left-hand position was taken by the label of a taller node
C24_Witness ==
  /\ Done
  /\ \E k \in 1 .. Len(placed) :
       /\ ~ placed[k].hasLeaderLine
       /\ TallEnough(NodeOf(placed[k].nodeOrLinkId))
       /\ NodeOf(placed[k].nodeOrLinkId).x0 >= Px(options.canvasWidth) \div 2
       /\ placed[k].x = NodeOf(placed[k].nodeOrLinkId).x1 + Px(6)
       /\ \E j \in 1 .. k - 1 :
            StrictOverlap(placed[j],
                          RectAt(LeftOf(NodeOf(placed[k].nodeOrLinkId),
                                        placed[k].width, placed[k].height),
                                 placed[k].width, placed[k].height))

\* the candidate of ring `ring` (distance 15 * ring) in compass direction
\* Angles[a] for a label of this size: its centre is the node's centre moved
\* by that distance in that direction
CandidateOf(node, width, height, ring, a) ==
  [x |-> Sub(Add(Half(Add(node.x0, node.x1)), CosTimes(Angles[a], 15 * ring)),
             Half(width)),
   y |-> Sub(Add(Half(Add(node.y0, node.y1)), SinTimes(Angles[a], 15 * ring)),
             Half(height))]

\* candidate (r, b) comes before candidate (ring, a) in the scan: rings
\* outward, angles 0, 45, ..., 315 within a ring
ScannedBefore(r, b, ring, a) == r < ring \/ (r = ring /\ b < a)

\* placed[k] is the candidate (ring, a) of its node, and every candidate
\* scanned before it was out of bounds or colliding at the node's turn
FirstFreeCandidate(k, ring, a) ==
  /\ PositionOf(placed[k])
       = CandidateOf(NodeOf(placed[k].nodeOrLinkId),
                     placed[k].width, placed[k].height, ring, a)
  /\ \A r \in 1 .. ring : \A b \in 1 .. 8 :
       ScannedBefore(r, b, ring, a) =>
         ~ FreeIn(IndexBefore(k),
                  RectAt(CandidateOf(NodeOf(placed[k].nodeOrLinkId),
                                     placed[k].width, placed[k].height, r, b),
                         placed[k].width, placed[k].height))

\* both standard positions of the node of placed[k] were out of bounds or
\* colliding at the node's turn
StandardRejected(k) ==
  /\ ~ FreeIn(IndexBefore(k),
              RectAt(RightOf(NodeOf(placed[k].nodeOrLinkId), placed[k].height),
                     placed[k].width, placed[k].height))
  /\ ~ FreeIn(IndexBefore(k),
              RectAt(LeftOf(NodeOf(placed[k].nodeOrLinkId),
                            placed[k].width, placed[k].height),
                     placed[k].width, placed[k].height))

\* C25: a label of placed has hasLeaderLine = true only if
\* enableDetachedLabels is set and both standard positions of its node were
\* rejected at the node's turn; its centre is the anchor moved by a distance
\* d in {15, 30, ...}, d <= leaderLineThreshold, along one of the 8 compass
\* directions, and it is the first candidate of the scan (rings outward,
\* angles 0, 45, ..., 315 within a ring) that was in bounds and free.  With
\* leaderLineThreshold < 15 no label is detached.
C25_DetachedCandidate ==
  \A k \in 1 .. Len(placed) :
    placed[k].hasLeaderLine =>
      /\ options.enableDetachedLabels
      /\ options.leaderLineThreshold >= 15
      /\ StandardRejected(k)
      /\ \E ring \in 1 .. options.leaderLineThreshold : \E a \in 1 .. 8 :
           /\ 15 * ring <= options.leaderLineThreshold
           /\ FirstFreeCandidate(k, ring, a)

\* a call has returned a detached label that is not the first candidate of
\* the scan: the candidate at distance 15 and angle 0 was rejected
C25_Witness ==
  /\ Done
  /\ \E k \in 1 .. Len(placed) :
       /\ placed[k].hasLeaderLine
       /\ PositionOf(placed[k])
            # CandidateOf(NodeOf(placed[k].nodeOrLinkId),
                          placed[k].width, placed[k].height, 1, 1)

\* the place of the node with this id in the input list
InputIndex(id) == CHOOSE i \in 1 .. Len(nodes) : nodes[i].id = id

\* a comes before b in an order of non-increasing height with ties in input
\* order: a is at least as high as b, and comes first in the input when the
\* heights are equal
InPriorityOrder(heightA, idA, heightB, idB) ==
  /\ Le(heightB, heightA)
  /\ heightA = heightB => InputIndex(idA) < InputIndex(idB)

\* the labels of the list are in priority order
ListInPriorityOrder(list) ==
  \A a, b \in 1 .. Len(list) :
    a < b => InPriorityOrder(list[a].priority, list[a].nodeOrLinkId,
                             list[b].priority, list[b].nodeOrLinkId)

\* C26: the nodes are attempted in descending order of their height y1 - y0,
\* nodes of equal height in their input order; the placed list and the
\* unplaced list are each in non-increasing order of priority, ties in input
\* order.
C26_PriorityOrder ==
  Done =>
    /\ \A a, b \in 1 .. Len(sortedNodes) :
         (a < b /\ Defined(sortedNodes[a]) /\ Defined(sortedNodes[b])) =>
           InPriorityOrder(Sub(sortedNodes[a].y1, sortedNodes[a].y0),
                           sortedNodes[a].id,
                           Sub(sortedNodes[b].y1, sortedNodes[b].y0),
                           sortedNodes[b].id)
    /\ ListInPriorityOrder(placed)
    /\ ListInPriorityOrder(unplaced)

\* the call is synchronous code: once it is in the loop, the iteration for
\* the node at hand and the return after the last node are taken
LoopStep ==
  \/ SkipNode
  \/ TooSmall
  \/ PlaceStandard
  \/ PlaceDetached
  \/ MarkUnplaced
  \/ DropNode
  \/ Return

\* weak fairness of LoopStep, WF_vars(LoopStep), written out: LoopStep is
\* enabled in exactly the states with pc = "loop", where the iteration or the
\* return changes idx or pc
LoopFairness == []<>(pc # "loop") \/ []<><<LoopStep>>_vars

SpecPlacementFair == SpecPlacement /\ LoopFairness

\* the candidates one node can be given: 2 standard ones and 8 on each ring
\* of distance 15, 30, ... up to leaderLineThreshold
MaxCandidates == 2 + 8 * (options.leaderLineThreshold \div 15)

\* C27: computeNodeLabelLayouts terminates: a call in its loop returns; each
\* step of the loop decides the node at hand and moves to the next one, so
\* that every node of the list is processed exactly once, and for one node
\* no more than 2 + 8 * floor(leaderLineThreshold / 15) candidates are put
\* to the collision test.
C27_Terminates ==
  /\ [][ pc = "loop" =>
           /\ Len(sortedNodes) = Len(nodes)
           /\ {sortedNodes[i].id : i \in 1 .. Len(sortedNodes)}
                = {nodes[i].id : i \in 1 .. Len(nodes)}
           /\ pc' = "loop" =>
                /\ idx' = idx + 1
                /\ idx' <= Len(sortedNodes) + 1
                /\ queries' <= queries + MaxCandidates
           /\ pc' = "done" => idx = Len(sortedNodes) + 1 ]_vars
  /\ (pc = "loop") ~> (pc = "done")

\* a call has returned after a node was refused at both standard positions
\* and at every candidate of two rings
C27_Witness ==
  /\ Done
  /\ options.leaderLineThreshold = 30
  /\ Len(nodes) > 1
  /\ queries > 2 * Len(nodes)
  /\ \E k \in 1 .. Len(unplaced) : TallEnough(NodeOf(unplaced[k].nodeOrLinkId))

\* the place of the node with this id in the order of the attempts
SortedIndex(id) == CHOOSE i \in 1 .. Len(sortedNodes) : sortedNodes[i].id = id

\* the rectangles the index holds when the node with this id has its turn:
\* those of existingLabels and of the labels of the nodes attempted before it
IndexAtTurn(id) ==
  existingLabels
    \o SelectSeq(placed,
                 LAMBDA l : SortedIndex(l.nodeOrLinkId) < SortedIndex(id))

\* some standard position of the node was in bounds and free at its turn
SomeStandardFree(node, width, height) ==
  \/ FreeIn(IndexAtTurn(node.id), RectAt(RightOf(node, height), width, height))
  \/ FreeIn(IndexAtTurn(node.id),
            RectAt(LeftOf(node, width, height), width, height))

\* some candidate of the spiral was in bounds and free at the node's turn
SomeSpiralFree(node, width, height) ==
  \E ring \in 1 .. options.leaderLineThreshold : \E a \in 1 .. 8 :
    /\ 15 * ring <= options.leaderLineThreshold
    /\ FreeIn(IndexAtTurn(node.id),
              RectAt(CandidateOf(node, width, height, ring, a), width, height))

\* some candidate the node is given was in bounds and free at its turn
SomeCandidateFree(node, width, height) ==
  \/ SomeStandardFree(node, width, height)
  \/ options.enableDetachedLabels /\ SomeSpiralFree(node, width, height)

\* the width and the height of the label of a node
WidthOf(node) == BackendWidth(node.id) + Px(options.padding * 2)

HeightOfLabel == Px(options.fontSize + options.padding * 2)

\* the nodes of the call that have had their turn
Processed ==
  {i \in 1 .. Len(sortedNodes) : pc = "done" \/ (pc = "loop" /\ i < idx)}

\* C28: a node of height >= minLabelHeight is in unplaced only if, at its
\* turn, both standard positions and, with enableDetachedLabels, every
\* candidate of the spiral were outside the canvas or colliding with a
\* rectangle of the index; a node with a candidate that was in bounds and
\* free is placed.
C28_UnplacedOnlyIfExhausted ==
  /\ \A k \in 1 .. Len(unplaced) :
       Le(Px(options.minLabelHeight), unplaced[k].priority) =>
         ~ SomeCandidateFree(NodeOf(unplaced[k].nodeOrLinkId),
                             unplaced[k].width, unplaced[k].height)
  /\ \A i \in Processed :
       ( /\ Defined(sortedNodes[i])
         /\ Le(Px(options.minLabelHeight),
               Sub(sortedNodes[i].y1, sortedNodes[i].y0))
         /\ SomeCandidateFree(sortedNodes[i], WidthOf(sortedNodes[i]),
                              HeightOfLabel) )
       => LabelsOf(placed, sortedNodes[i].id) # {}

\* a call with enableDetachedLabels has returned a node of height >=
\* minLabelHeight in unplaced, refused at 18 candidates, beside a node that
\* was placed on the spiral
C28_Witness ==
  /\ Done
  /\ options.enableDetachedLabels
  /\ options.leaderLineThreshold = 30
  /\ \E k \in 1 .. Len(unplaced) : TallEnough(NodeOf(unplaced[k].nodeOrLinkId))
  /\ \E k \in 1 .. Len(placed) : placed[k].hasLeaderLine

\* the labels the index holds in some cell
GridLabels(grid) ==
  UNION { {grid[c][k] : k \in 1 .. Len(grid[c])} : c \in DOMAIN grid }

\* the labels of a list
LabelSet(list) == {list[k] : k \in 1 .. Len(list)}

\* no cell of the index holds a label twice
InsertedOnce(grid) ==
  \A c \in DOMAIN grid : \A j, k \in 1 .. Len(grid[c]) :
    grid[c][j] = grid[c][k] => j = k

\* C29: from the start of a call to its return, after every step, the
\* spatial index holds exactly the rectangles of existingLabels and of the
\* labels in placed, each of them once: nothing of an earlier call remains,
\* a placed label is in the index before the next node is tried, and no
\* record of unplaced is in it.
C29_IndexContents ==
  [][ (pc' = "loop" \/ (pc = "loop" /\ pc' = "done")) =>
        /\ GridLabels(spatialGrid')
             = LabelSet(existingLabels') \cup LabelSet(placed')
        /\ InsertedOnce(spatialGrid')
        /\ GridLabels(spatialGrid') \cap LabelSet(unplaced') = {} ]_vars

----------------------------------------------------------------------------
(* Properties of SankeyCanvas after componentWillUnmount *)

\* C30: once componentWillUnmount has run, no frame is pending, draw is not
\* called and no frame is requested again: the component stays as
\* componentWillUnmount left it, whatever frames, pointer events and updates
\* came before.
C30_NoFrameAfterUnmount ==
  canvas.pc = "unmounted" =>
    /\ ~ canvas.rafId
    /\ ~ canvas.drew
    /\ canvas.last = "unmount"

\* the component was unmounted while a node was hovered and a redraw was
\* asked for that no frame had yet drawn
C30_Witness ==
  /\ canvas.pc = "unmounted"
  /\ canvas.needsRedraw
  /\ canvas.hoveredNode # 0
  /\ ~ canvas.rafId
====
